---- MODULE Spec2Model ----
(***************************************************************************)
(* Menu document redliner (services/docx-redliner).                        *)
(*                                                                         *)
(* The repository holds two MenuRedliner modules:                          *)
(*   "live"        services/docx-redliner/menu_redliner.py, the module     *)
(*                 that bulk_process.py, process_menu.py and               *)
(*                 test_redliner.py import;                                *)
(*   "deprecated"  services/docx-redliner/deprecated/menu_redliner.py.     *)
(* Both are modelled; the variable impl says which one a behaviour runs.   *)
(*                                                                         *)
(* A text is a sequence of one-character strings.  A run is a record of    *)
(* its text and font attributes; an attribute that python-docx reports as  *)
(* None is the string "None".  A paragraph is a record with an identity    *)
(* and a sequence of runs; a document is a sequence of paragraphs.         *)
(*                                                                         *)
(* The correctors of ai_corrector.py (AICorrector, BatchAICorrector) and    *)
(* the bulk runner bulk_process.py (RateLimitedCorrector, process_folder)  *)
(* are modelled with the external service as a choice of outcomes: a       *)
(* response, a rate-limit error, another error.                            *)
(*                                                                         *)
(* Outside the model: difflib's autojunk heuristic (token lists of 200     *)
(* and more) and the text of the prompts sent to the service.              *)
(***************************************************************************)
EXTENDS Integers, Sequences, FiniteSets, TLC

VARIABLES
  impl,                   \* which menu_redliner module runs
  boundary_marker,        \* MenuRedliner.boundary_marker
  doc,                    \* the document being processed: Seq of paragraphs
  doc0,                   \* the document as it was loaded (history)
  pc,                     \* position in the running operation
  paragraphs_to_process,  \* process_document: ids of the menu paragraphs
  idx,                    \* process_document: paragraphs already visited
  modified_count,         \* process_document: paragraphs counted as modified
  saved,                  \* the document written by doc.save, or <<>>
  call,                   \* the latest _word_level_diffs / process_paragraph /
                          \* detect_allergen_legend call
  corrector,              \* the AICorrector: allergen_codes, system_prompt
  bulk,                   \* process_folder: its files, lists, position and
                          \* its RateLimitedCorrector
  batch,                  \* the latest BatchAICorrector.correct_batch call
  again                   \* a second process_document run on the first's output

vars == <<impl, boundary_marker, doc, doc0, pc, paragraphs_to_process, idx,
          modified_count, saved, call, corrector, bulk, batch, again>>

(***************************************************************************)
(* Bounds of the model                                                     *)
(***************************************************************************)
\* longest generated text (original or corrected), in characters
MaxLen == 3

\* characters of the generated texts: a word character, a blank, a
\* punctuation mark
Alphabet == {"a", " ", ","}

Impls == {"live", "deprecated"}

None == "None"

(***************************************************************************)
(* Texts                                                                   *)
(***************************************************************************)
TextsUpTo(n) == UNION {[1..k -> Alphabet] : k \in 0..n}

\* Python's 0-based indexing and slicing s[lo:hi]
At(s, i) == s[i + 1]

Slice(s, lo, hi) == IF hi <= lo THEN <<>> ELSE SubSeq(s, lo + 1, hi)

RECURSIVE Join(_)
\* ''.join(list of texts)
Join(ts) == IF ts = <<>> THEN <<>> ELSE Head(ts) \o Join(Tail(ts))

\* the characters the regular expression classes \w and \s accept, among the
\* characters that occur in the model's texts
WordChars ==
  {"a", "b", "c", "d", "e", "f", "g", "h", "i", "j", "k", "l", "m", "n", "o",
   "p", "q", "r", "s", "t", "u", "v", "w", "x", "y", "z",
   "A", "B", "C", "D", "E", "F", "G", "H", "I", "J", "K", "L", "M", "N", "O",
   "P", "Q", "R", "S", "T", "U", "V", "W", "X", "Y", "Z",
   "0", "1", "2", "3", "4", "5", "6", "7", "8", "9", "_"}

SpaceChars == {" ", "\t", "\n"}

IsWord(c) == c \in WordChars

IsSpace(c) == c \in SpaceChars

\* str.strip() == '' : the text is empty or all whitespace
IsBlank(s) == \A i \in 1..Len(s) : IsSpace(s[i])

RECURSIVE LStrip(_)
LStrip(s) == IF s # <<>> /\ IsSpace(Head(s)) THEN LStrip(Tail(s)) ELSE s

RECURSIVE RStrip(_)
RStrip(s) ==
  IF s # <<>> /\ IsSpace(s[Len(s)]) THEN RStrip(SubSeq(s, 1, Len(s) - 1)) ELSE s

\* str.strip()
Strip(s) == RStrip(LStrip(s))

(***************************************************************************)
(* _tokenize: re.findall(r"\w+|\s+|[^\w\s]", text)                         *)
(***************************************************************************)
RECURSIVE SpanEnd(_, _, _)
\* end (exclusive, 0-based) of the maximal run of characters of class cls
\* ("w" or "s") that starts at 0-based position i
SpanEnd(s, i, cls) ==
  IF i < Len(s) /\ (IF cls = "w" THEN IsWord(At(s, i)) ELSE IsSpace(At(s, i)))
  THEN SpanEnd(s, i + 1, cls)
  ELSE i

\* a tokenizer that makes every character a token of its own
tokenize_chars(text) == [i \in 1..Len(text) |-> <<text[i]>>]

RECURSIVE TokenizeFrom(_, _)
TokenizeFrom(s, i) ==
  IF i >= Len(s) THEN <<>>
  ELSE LET c == At(s, i)
           j == IF IsWord(c) THEN SpanEnd(s, i, "w")
                ELSE IF IsSpace(c) THEN SpanEnd(s, i, "s")
                ELSE i + 1
       IN  <<Slice(s, i, j)>> \o TokenizeFrom(s, j)

tokenize(text) == TokenizeFrom(text, 0)

(***************************************************************************)
(* difflib.SequenceMatcher(a=orig_tokens, b=corr_tokens).get_opcodes()     *)
(* with no junk (isjunk=None) and fewer than 200 tokens in b, so that the  *)
(* auto-junk heuristic is off.                                             *)
(***************************************************************************)
RECURSIVE RunLen(_, _, _, _, _, _)
\* j2len: length of the common block of a and b that ends at a[i], b[j] and
\* lies in the window a[alo:], b[blo:]
RunLen(a, b, alo, blo, i, j) ==
  IF i < alo \/ j < blo THEN 0
  ELSE IF At(a, i) # At(b, j) THEN 0
  ELSE 1 + RunLen(a, b, alo, blo, i - 1, j - 1)

Max(S) == CHOOSE x \in S : \A y \in S : y <= x

Min(S) == CHOOSE x \in S : \A y \in S : x <= y

\* find_longest_match without the window's last element of a: an off-by-one
\* in the scan of a
find_longest_match_short(a, b, alo, ahi, blo, bhi) ==
  LET I == alo..(ahi - 2)
      J == blo..(bhi - 1)
      ends == {<<RunLen(a, b, alo, blo, i, j), i, j>> : i \in I, j \in J}
      best == Max({0} \cup {e[1] : e \in ends})
  IN  IF best = 0 THEN [i |-> alo, j |-> blo, size |-> 0]
      ELSE LET ie == Min({e[2] : e \in {x \in ends : x[1] = best}})
               je == Min({e[3] : e \in {x \in ends : x[1] = best /\ x[2] = ie}})
           IN  [i |-> ie - best + 1, j |-> je - best + 1, size |-> best]

\* find_longest_match(alo, ahi, blo, bhi): the longest block a[i:i+k] ==
\* b[j:j+k] in the window; of the longest blocks the one that starts earliest
\* in a and, of those, earliest in b (the scan replaces its best only by a
\* strictly longer block).  With no junk the four extension loops add nothing.
find_longest_match(a, b, alo, ahi, blo, bhi) ==
  LET I == alo..(ahi - 1)
      J == blo..(bhi - 1)
      ends == {<<RunLen(a, b, alo, blo, i, j), i, j>> : i \in I, j \in J}
      best == Max({0} \cup {e[1] : e \in ends})
  IN  IF best = 0 THEN [i |-> alo, j |-> blo, size |-> 0]
      ELSE LET ie == Min({e[2] : e \in {x \in ends : x[1] = best}})
               je == Min({e[3] : e \in {x \in ends : x[1] = best /\ x[2] = ie}})
           IN  [i |-> ie - best + 1, j |-> je - best + 1, size |-> best]

RECURSIVE MatchingBlocksIn(_, _, _, _, _, _)
\* get_matching_blocks: the longest match of the window, then the windows to
\* its left and to its right; returned in increasing order (the sort)
MatchingBlocksIn(a, b, alo, ahi, blo, bhi) ==
  LET x == find_longest_match(a, b, alo, ahi, blo, bhi)
  IN  IF x.size = 0 THEN <<>>
      ELSE (IF alo < x.i /\ blo < x.j
              THEN MatchingBlocksIn(a, b, alo, x.i, blo, x.j) ELSE <<>>)
           \o <<x>> \o
           (IF x.i + x.size < ahi /\ x.j + x.size < bhi
              THEN MatchingBlocksIn(a, b, x.i + x.size, ahi, x.j + x.size, bhi)
              ELSE <<>>)

RECURSIVE CollapseAdjacent(_, _)
\* get_matching_blocks: adjacent blocks are merged; cur is (i1, j1, k1)
CollapseAdjacent(blocks, cur) ==
  IF blocks = <<>>
  THEN IF cur.size > 0 THEN <<cur>> ELSE <<>>
  ELSE LET x == Head(blocks)
       IN  IF cur.i + cur.size = x.i /\ cur.j + cur.size = x.j
           THEN CollapseAdjacent(Tail(blocks), [cur EXCEPT !.size = cur.size + x.size])
           ELSE (IF cur.size > 0 THEN <<cur>> ELSE <<>>)
                \o CollapseAdjacent(Tail(blocks), x)

get_matching_blocks(a, b) ==
  CollapseAdjacent(MatchingBlocksIn(a, b, 0, Len(a), 0, Len(b)),
                   [i |-> 0, j |-> 0, size |-> 0])
  \o <<[i |-> Len(a), j |-> Len(b), size |-> 0]>>

RECURSIVE OpcodesFrom(_, _, _)
\* get_opcodes: (tag, i1, i2, j1, j2) for the gap before each matching block,
\* then 'equal' for the block
OpcodesFrom(blocks, i, j) ==
  IF blocks = <<>> THEN <<>>
  ELSE LET x == Head(blocks)
           tag == IF i < x.i /\ j < x.j THEN "replace"
                  ELSE IF i < x.i THEN "delete"
                  ELSE IF j < x.j THEN "insert"
                  ELSE ""
       IN  (IF tag # ""
              THEN <<[tag |-> tag, i1 |-> i, i2 |-> x.i, j1 |-> j, j2 |-> x.j]>>
              ELSE <<>>)
           \o (IF x.size > 0
                 THEN <<[tag |-> "equal", i1 |-> x.i, i2 |-> x.i + x.size,
                         j1 |-> x.j, j2 |-> x.j + x.size]>>
                 ELSE <<>>)
           \o OpcodesFrom(Tail(blocks), x.i + x.size, x.j + x.size)

get_opcodes(a, b) == OpcodesFrom(get_matching_blocks(a, b), 0, 0)

(***************************************************************************)
(* _word_level_diffs                                                       *)
(***************************************************************************)
DIFF_DELETE == -1
DIFF_INSERT == 1
DIFF_EQUAL == 0

Span(op, text) == [op |-> op, text |-> text]

\* the spans one opcode appends to diffs, the replace branch forgetting the
\* inserted text
OpcodeDiffsDropInsert(im, oc, orig_tokens, corr_tokens) ==
  LET del_text == Join(Slice(orig_tokens, oc.i1, oc.i2))
      ins_text == Join(Slice(corr_tokens, oc.j1, oc.j2))
  IN  IF oc.tag = "equal"
        THEN IF del_text # <<>> THEN <<Span(DIFF_EQUAL, del_text)>> ELSE <<>>
      ELSE IF oc.tag = "insert"
        THEN IF ins_text # <<>> THEN <<Span(DIFF_INSERT, ins_text)>> ELSE <<>>
      ELSE IF del_text # <<>> THEN <<Span(DIFF_DELETE, del_text)>> ELSE <<>>

\* the spans one opcode (tag, i1, i2, j1, j2) appends to diffs
OpcodeDiffs(im, oc, orig_tokens, corr_tokens) ==
  LET del_text == Join(Slice(orig_tokens, oc.i1, oc.i2))
      ins_text == Join(Slice(corr_tokens, oc.j1, oc.j2))
  IN  IF oc.tag = "equal"
        THEN IF del_text # <<>> THEN <<Span(DIFF_EQUAL, del_text)>> ELSE <<>>
      ELSE IF oc.tag = "replace"
        THEN IF im = "deprecated" /\ IsBlank(del_text) /\ IsBlank(ins_text)
               THEN \* both whitespace-only: keep the original as equal
                    IF del_text # <<>> THEN <<Span(DIFF_EQUAL, del_text)>> ELSE <<>>
               ELSE (IF del_text # <<>> THEN <<Span(DIFF_DELETE, del_text)>> ELSE <<>>)
                    \o (IF ins_text # <<>> THEN <<Span(DIFF_INSERT, ins_text)>> ELSE <<>>)
      ELSE IF oc.tag = "delete"
        THEN IF del_text = <<>> THEN <<>>
             ELSE IF im = "deprecated" /\ IsBlank(del_text)
               THEN <<Span(DIFF_EQUAL, del_text)>>
               ELSE <<Span(DIFF_DELETE, del_text)>>
      ELSE \* insert
             IF ins_text = <<>> THEN <<>>
             ELSE IF im = "deprecated" /\ IsBlank(ins_text)
               THEN <<Span(DIFF_EQUAL, ins_text)>>
               ELSE <<Span(DIFF_INSERT, ins_text)>>

RECURSIVE MergeAdjacent(_, _)
\* merge adjacent same-op segments; merged is the list built so far
MergeAdjacent(diffs, merged) ==
  IF diffs = <<>> THEN merged
  ELSE LET d == Head(diffs)
           n == Len(merged)
       IN  IF n > 0 /\ merged[n].op = d.op
           THEN MergeAdjacent(Tail(diffs),
                  [merged EXCEPT ![n] = Span(d.op, merged[n].text \o d.text)])
           ELSE MergeAdjacent(Tail(diffs), Append(merged, d))

RECURSIVE AllOpcodeDiffs(_, _, _, _)
AllOpcodeDiffs(im, ocs, orig_tokens, corr_tokens) ==
  IF ocs = <<>> THEN <<>>
  ELSE OpcodeDiffs(im, Head(ocs), orig_tokens, corr_tokens)
       \o AllOpcodeDiffs(im, Tail(ocs), orig_tokens, corr_tokens)

word_level_diffs(im, original_text, corrected_text) ==
  LET orig_tokens == tokenize(original_text)
      corr_tokens == tokenize(corrected_text)
  IN  MergeAdjacent(
        AllOpcodeDiffs(im, get_opcodes(orig_tokens, corr_tokens),
                       orig_tokens, corr_tokens),
        <<>>)

(***************************************************************************)
(* Runs and paragraphs                                                     *)
(***************************************************************************)
\* a format: the font attributes build_char_format_map captures
Format(name, size, bold, italic, underline, color) ==
  [name |-> name, size |-> size, bold |-> bold, italic |-> italic,
   underline |-> underline, color |-> color]

NoFormat == Format(None, None, None, None, None, None)

MkRun(text, f, strike, highlight) ==
  [text |-> text, name |-> f.name, size |-> f.size, bold |-> f.bold,
   italic |-> f.italic, underline |-> f.underline, color |-> f.color,
   strike |-> strike, highlight |-> highlight]

\* para.add_run(text): a run with no attribute set
add_run(text) == MkRun(text, NoFormat, None, None)

RED == "FF0000"

YELLOW == "YELLOW"

MkPara(id, runs) == [id |-> id, alignment |-> None, runs |-> runs]

RECURSIVE RunsText(_)
\* para.text: "".join(r.text for r in runs)
RunsText(runs) ==
  IF runs = <<>> THEN <<>> ELSE Head(runs).text \o RunsText(Tail(runs))

\* python's truth value of an attribute: set, and not False
Truthy(v) == v # None /\ v # "False"

(***************************************************************************)
(* find_run_at_index (live module)                                         *)
(***************************************************************************)
RECURSIVE FindRunFrom(_, _, _, _)
FindRunFrom(original_runs, k, cumulative_len, target_index) ==
  IF k > Len(original_runs)
  THEN \* fallback to the last run
       original_runs[Len(original_runs)]
  ELSE IF cumulative_len + Len(original_runs[k].text) > target_index
  THEN original_runs[k]
  ELSE FindRunFrom(original_runs, k + 1,
                   cumulative_len + Len(original_runs[k].text), target_index)

\* original_runs is not empty where apply_formatted_diffs calls it
find_run_at_index(original_runs, target_index) ==
  FindRunFrom(original_runs, 1, 0, target_index)

(***************************************************************************)
(* build_char_format_map (deprecated module)                               *)
(***************************************************************************)
RunFormat(run) ==
  Format(run.name, run.size, run.bold, run.italic, run.underline, run.color)

RECURSIVE build_char_format_map(_)
build_char_format_map(original_runs) ==
  IF original_runs = <<>> THEN <<>>
  ELSE [i \in 1..Len(Head(original_runs).text) |-> RunFormat(Head(original_runs))]
       \o build_char_format_map(Tail(original_runs))

(***************************************************************************)
(* apply_formatted_diffs                                                   *)
(***************************************************************************)
RECURSIVE RenderNoRuns(_)
\* the paragraph had no runs: only the operation's own style is applied
RenderNoRuns(diffs) ==
  IF diffs = <<>> THEN <<>>
  ELSE LET d == Head(diffs)
       IN  (IF d.text = <<>> THEN <<>>
            ELSE IF d.op = DIFF_DELETE
              THEN <<[add_run(d.text) EXCEPT !.strike = "True", !.color = RED]>>
            ELSE IF d.op = DIFF_INSERT
              THEN <<[add_run(d.text) EXCEPT !.highlight = YELLOW]>>
            ELSE <<add_run(d.text)>>)
           \o RenderNoRuns(Tail(diffs))

\* a run for one diff span whose deletion keeps the color of the original run
LiveRunKeepColor(d, style_run) ==
  LET copied == [add_run(d.text) EXCEPT
                   !.name = style_run.name,
                   !.size = style_run.size,
                   !.bold = style_run.bold,
                   !.italic = style_run.italic,
                   !.underline = style_run.underline,
                   !.color = style_run.color]
  IN  IF d.op = DIFF_DELETE
        THEN [copied EXCEPT !.strike = "True"]
      ELSE IF d.op = DIFF_INSERT
        THEN [copied EXCEPT !.highlight = YELLOW]
      ELSE copied

\* live module, steps 4-7: the run for one diff span, styled after the
\* original run at the cursor
LiveRun(d, style_run) ==
  LET copied == [add_run(d.text) EXCEPT
                   !.name = style_run.name,
                   !.size = style_run.size,
                   !.bold = style_run.bold,
                   !.italic = style_run.italic,
                   !.underline = style_run.underline,
                   !.color = IF d.op # DIFF_DELETE THEN style_run.color ELSE None]
  IN  IF d.op = DIFF_DELETE
        THEN [copied EXCEPT !.strike = "True", !.color = RED]
      ELSE IF d.op = DIFF_INSERT
        THEN [copied EXCEPT !.highlight = YELLOW]
      ELSE copied
RECURSIVE current_text_index_after(_, _)
\* current_text_index after the first k spans of diffs: a span with text
\* advances it by len(text) unless it is an insertion
current_text_index_after(diffs, k) ==
  IF k = 0 THEN 0
  ELSE current_text_index_after(diffs, k - 1)
       + (IF diffs[k].op # DIFF_INSERT THEN Len(diffs[k].text) ELSE 0)

RECURSIVE RenderLive(_, _, _)
RenderLive(diffs, original_runs, current_text_index) ==
  IF diffs = <<>> THEN <<>>
  ELSE LET d == Head(diffs)
       IN  IF d.text = <<>>
           THEN RenderLive(Tail(diffs), original_runs, current_text_index)
           ELSE <<LiveRun(d, find_run_at_index(original_runs, current_text_index))>>
                \o RenderLive(Tail(diffs), original_runs,
                              IF d.op # DIFF_INSERT
                                THEN current_text_index + Len(d.text)
                                ELSE current_text_index)

\* deprecated module: the format-map entry at a character index, or the
\* default format past the end of the map
FormatAt(char_format_map, default_format, char_idx) ==
  IF char_idx < Len(char_format_map)
    THEN At(char_format_map, char_idx) ELSE default_format

RECURSIVE SameBoldEnd(_, _, _, _, _, _)
\* the inner while loop: the first j >= from at which bold changes, or len(text)
SameBoldEnd(text, char_format_map, default_format, current_text_index, bold, j) ==
  IF j < Len(text)
     /\ FormatAt(char_format_map, default_format, current_text_index + j).bold = bold
  THEN SameBoldEnd(text, char_format_map, default_format, current_text_index,
                   bold, j + 1)
  ELSE j

RECURSIVE EqualRuns(_, _, _, _, _)
\* deprecated module, Equal branch: the span is split where bold changes and
\* each piece carries the format of its first character
EqualRuns(text, char_format_map, default_format, current_text_index, i) ==
  IF i >= Len(text) THEN <<>>
  ELSE LET current_format ==
             FormatAt(char_format_map, default_format, current_text_index + i)
           j == SameBoldEnd(text, char_format_map, default_format,
                            current_text_index, current_format.bold, i + 1)
       IN  <<MkRun(Slice(text, i, j), current_format, None, None)>>
           \o EqualRuns(text, char_format_map, default_format,
                        current_text_index, j)

\* deprecated module, Delete branch
DeleteRun(text, char_format_map, current_text_index) ==
  LET fmt == IF current_text_index < Len(char_format_map)
               THEN At(char_format_map, current_text_index) ELSE NoFormat
  IN  [add_run(text) EXCEPT !.name = fmt.name, !.size = fmt.size,
                            !.bold = fmt.bold,
                            !.strike = "True", !.color = RED]

\* deprecated module, Insert branch
InsertRun(text, default_format) ==
  [add_run(text) EXCEPT !.name = default_format.name,
                        !.size = default_format.size,
                        !.highlight = YELLOW]

RECURSIVE RenderDeprecated(_, _, _, _)
RenderDeprecated(diffs, char_format_map, default_format, current_text_index) ==
  IF diffs = <<>> THEN <<>>
  ELSE LET d == Head(diffs)
       IN  IF d.text = <<>>
           THEN RenderDeprecated(Tail(diffs), char_format_map, default_format,
                                 current_text_index)
           ELSE (IF d.op = DIFF_EQUAL
                   THEN EqualRuns(d.text, char_format_map, default_format,
                                  current_text_index, 0)
                 ELSE IF d.op = DIFF_DELETE
                   THEN <<DeleteRun(d.text, char_format_map, current_text_index)>>
                 ELSE <<InsertRun(d.text, default_format)>>)
                \o RenderDeprecated(Tail(diffs), char_format_map, default_format,
                                    IF d.op # DIFF_INSERT
                                      THEN current_text_index + Len(d.text)
                                      ELSE current_text_index)

\* characters that an XML document cannot hold
ControlChars == {"NUL"}

\* para.add_run(text) raises ValueError when text holds such a character
\* (python-docx stores the text in an lxml element, which refuses it)
AddRunRaises(text) == \E i \in 1..Len(text) : text[i] \in ControlChars

\* the index of the first span whose add_run raises, or 0
FirstRaising(diffs) ==
  LET bad == {k \in 1..Len(diffs) : AddRunRaises(diffs[k].text)}
  IN  IF bad = {} THEN 0 ELSE Min(bad)

\* whether apply_formatted_diffs(para, diffs) raises
apply_formatted_diffs_raises(diffs) == FirstRaising(diffs) # 0

\* the paragraph's runs after apply_formatted_diffs(para, diffs): the old runs
\* are removed first, then one span after the other is appended; when add_run
\* raises for a span, the runs of the spans before it and the empty run that
\* add_run had appended before it set the text are what the paragraph holds
apply_formatted_diffs(im, original_runs, diffs) ==
  LET k == FirstRaising(diffs)
      reached == IF k = 0 THEN diffs ELSE SubSeq(diffs, 1, k - 1)
      rendered ==
        IF original_runs = <<>> THEN RenderNoRuns(reached)
        ELSE IF im = "live" THEN RenderLive(reached, original_runs, 0)
        ELSE LET char_format_map == build_char_format_map(original_runs)
                 default_format == IF char_format_map # <<>>
                                     THEN char_format_map[1] ELSE NoFormat
             IN  RenderDeprecated(reached, char_format_map, default_format, 0)
  IN  IF k = 0 THEN rendered ELSE rendered \o <<add_run(<<>>)>>

(***************************************************************************)
(* Eligibility checks (deprecated module)                                  *)
(***************************************************************************)
(***************************************************************************)
(* Clean text of a redlined paragraph (extract_clean_menu_text.py)         *)
(***************************************************************************)
RECURSIVE CleanedParts(_)
\* cleaned_parts: the texts of the runs that are not struck through
CleanedParts(runs) ==
  IF runs = <<>> THEN <<>>
  ELSE (IF Head(runs).text = <<>> \/ Truthy(Head(runs).strike)
          THEN <<>> ELSE <<Head(runs).text>>)
       \o CleanedParts(Tail(runs))

\* the paragraph's text with the struck-through runs left in
paragraph_text_with_deletions(runs) == RunsText(runs)

\* paragraph_clean_text(paragraph): paragraph.text for a paragraph without
\* runs, else the joined texts of the runs that are not struck through
paragraph_clean_text(runs) ==
  IF runs = <<>> THEN RunsText(runs) ELSE Join(CleanedParts(runs))

paragraph_has_existing_redlines(runs) ==
  \E k \in 1..Len(runs) : Truthy(runs[k].strike) \/ Truthy(runs[k].highlight)

\* defined in the deprecated module; process_paragraph does not call it
paragraph_has_mixed_bold(runs) ==
  /\ \E k \in 1..Len(runs) : ~IsBlank(runs[k].text) /\ Truthy(runs[k].bold)
  /\ \E k \in 1..Len(runs) : ~IsBlank(runs[k].text) /\ ~Truthy(runs[k].bold)

(***************************************************************************)
(* process_paragraph                                                       *)
(***************************************************************************)
\* the result of process_paragraph(para, ai_correction_func) when the
\* correction function, if it is called, returns corrected:
\*   runs  the paragraph's runs afterwards      ret    the value returned
\*   asked whether the correction function ran  diffs  the edit script
\*   raised whether the call ended in an exception instead of returning
Outcome(runs, ret, asked, diffs, raised) ==
  [runs |-> runs, ret |-> ret, asked |-> asked, diffs |-> diffs,
   raised |-> raised]

process_paragraph(im, runs, corrected_text) ==
  LET original_text == RunsText(runs)
  IN  IF IsBlank(original_text)
        THEN \* skip empty paragraphs
             Outcome(runs, FALSE, FALSE, <<>>, FALSE)
      ELSE IF im = "deprecated" /\ paragraph_has_existing_redlines(runs)
        THEN Outcome(runs, FALSE, FALSE, <<>>, FALSE)
      ELSE IF original_text = corrected_text
        THEN Outcome(runs, FALSE, TRUE, <<>>, FALSE)
      ELSE LET diffs == word_level_diffs(im, original_text, corrected_text)
               raised == apply_formatted_diffs_raises(diffs)
           IN  Outcome(apply_formatted_diffs(im, runs, diffs), ~raised, TRUE,
                       diffs, raised)

(***************************************************************************)
(* Texts of the specification's own examples                               *)
(***************************************************************************)
ScenarioOriginal ==
  <<"T", "u", "n", "a", " ", "T", "a", "r", "t", "a", "r", " ", "T", "o", "s",
    "t", "a", "d", "a", ",", " ", "a", "v", "o", "c", "a", "d", "o", " ", "m",
    "o", "u", "s", "s", "e", " ", "D", ",", "G">>

ScenarioCorrected ==
  <<"T", "u", "n", "a", " ", "T", "a", "r", "t", "a", "r", "e", " ", "T", "o",
    "s", "t", "a", "d", "a", ",", " ", "a", "v", "o", "c", "a", "d", "o", " ",
    "m", "o", "u", "s", "s", "e", " ", "*", " ", "D", ",", "G">>

FooBarOriginal == <<"f", "o", "o", " ", " ", "b", "a", "r">>

FooBarCorrected == <<"f", "o", "o", " ", "b", "a", "r">>

CaesarBold == <<"C", "a", "e", "s", "a", "r", " ", "S", "a", "l", "a", "d">>

CaesarPlain == <<",", " ", "l", "e", "t", "u", "c", "e", ",", " ", "1", "4">>

CaesarCorrected ==
  <<"C", "a", "e", "s", "a", "r", " ", "S", "a", "l", "a", "d", ",", " ", "l",
    "e", "t", "t", "u", "c", "e", ",", " ", "1", "4">>

ExampleTexts ==
  {ScenarioOriginal, ScenarioCorrected, FooBarOriginal, FooBarCorrected,
   CaesarBold \o CaesarPlain, CaesarCorrected}

ExamplePairs ==
  {<<ScenarioOriginal, ScenarioCorrected>>,
   <<FooBarOriginal, FooBarCorrected>>,
   <<CaesarBold \o CaesarPlain, CaesarCorrected>>}

(***************************************************************************)
(* SpecDiff: _word_level_diffs called on a pair of texts                   *)
(***************************************************************************)
NoCall ==
  [para |-> 0, original_text |-> <<>>, corrected_text |-> <<>>,
   diffs |-> <<>>, asked |-> FALSE, ret |-> FALSE, raised |-> FALSE,
   requests |-> <<>>, sleeps |-> <<>>, system_prompt |-> None]

\* no corrector takes part
NoCorrector == [allergen_codes |-> {}, system_prompt |-> None]

\* no RateLimitedCorrector wraps the corrector
NoRateLimited == [corrector |-> None, call_count |-> 0]

\* no bulk run takes part
NoBulk ==
  [docx_files |-> <<>>, i |-> 0, successful |-> <<>>, failed |-> <<>>,
   output |-> {}, rate_limited |-> NoRateLimited]

\* no batch correction takes part
NoBatch == [texts |-> <<>>, outcome |-> [kind |-> None, content |-> <<>>],
            result |-> <<>>]

\* no second run: pass is the run under way, first the document the first
\* run saved, func the correction function of both runs
NoAgain == [pass |-> 1, func |-> None, first |-> <<>>]

DiffInputs ==
  (TextsUpTo(MaxLen) \X TextsUpTo(MaxLen))
  \cup ExamplePairs
  \cup {<<t, t>> : t \in ExampleTexts}

InitDiff ==
  /\ impl \in Impls
  /\ boundary_marker = <<>>
  /\ doc = <<>>
  /\ doc0 = <<>>
  /\ pc = "diff"
  /\ paragraphs_to_process = <<>>
  /\ idx = 0
  /\ modified_count = 0
  /\ saved = <<>>
  /\ \E p \in DiffInputs :
       call = [NoCall EXCEPT !.original_text = p[1], !.corrected_text = p[2]]
  /\ corrector = NoCorrector
  /\ bulk = NoBulk
  /\ batch = NoBatch
  /\ again = NoAgain

WordLevelDiffs ==
  /\ pc = "diff"
  /\ call' = [call EXCEPT
                !.diffs = word_level_diffs(impl, call.original_text,
                                           call.corrected_text)]
  /\ pc' = "diffed"
  /\ UNCHANGED <<impl, boundary_marker, doc, doc0, paragraphs_to_process, idx,
                 modified_count, saved, corrector, bulk, batch, again>>

NextDiff == WordLevelDiffs

SpecDiff == InitDiff /\ [][NextDiff]_vars

(***************************************************************************)
(* SpecPara: process_paragraph called on one paragraph                     *)
(***************************************************************************)
PlainFmt == NoFormat

BoldFmt == Format("Arial", "Pt12", "True", None, None, None)

ItalFmt == Format(None, None, None, "True", "True", "0000FF")

PlainRun(text) == MkRun(text, PlainFmt, None, None)

BoldRun(text) == MkRun(text, BoldFmt, None, None)

ItalRun(text) == MkRun(text, ItalFmt, None, None)

\* a run a reviewer struck through, and a run a reviewer highlighted
StruckRun(text) == MkRun(text, PlainFmt, "True", None)

HighlightedRun(text) == MkRun(text, PlainFmt, None, YELLOW)

\* the run layouts generated over a text: one run, or two runs split at any
\* offset (a run may be empty)
Layouts(t) ==
  {<<PlainRun(t)>>, <<BoldRun(t)>>, <<ItalRun(t)>>, <<StruckRun(t)>>,
   <<HighlightedRun(t)>>}
  \cup UNION {
    LET l == Slice(t, 0, k)
        r == Slice(t, k, Len(t))
    IN  {<<BoldRun(l), PlainRun(r)>>, <<PlainRun(l), BoldRun(r)>>,
         <<PlainRun(l), ItalRun(r)>>, <<PlainRun(l), StruckRun(r)>>}
    : k \in 0..Len(t)}

\* the specification's examples as paragraphs
ExampleParagraphs ==
  {<<BoldRun(CaesarBold), PlainRun(CaesarPlain)>>,
   <<PlainRun(ScenarioOriginal)>>,
   <<BoldRun(Slice(ScenarioOriginal, 0, 19)),
     PlainRun(Slice(ScenarioOriginal, 19, 36)),
     ItalRun(Slice(ScenarioOriginal, 36, 39))>>,
   <<PlainRun(FooBarOriginal)>>}

ParagraphInputs ==
  UNION {Layouts(t) : t \in TextsUpTo(MaxLen)} \cup ExampleParagraphs \cup {<<>>}

\* what the correction function may return for a text
CorrectionOutputs(original_text) ==
  TextsUpTo(MaxLen)
  \cup {original_text}
  \cup {p[2] : p \in {q \in ExamplePairs : q[1] = original_text}}
  \cup {original_text \o <<"NUL">>}

InitPara ==
  /\ impl \in Impls
  /\ boundary_marker = <<>>
  /\ \E runs \in ParagraphInputs : doc = <<MkPara(1, runs)>>
  /\ doc0 = doc
  /\ pc = "para"
  /\ paragraphs_to_process = <<>>
  /\ idx = 0
  /\ modified_count = 0
  /\ saved = <<>>
  /\ call = NoCall
  /\ corrector = NoCorrector
  /\ bulk = NoBulk
  /\ batch = NoBatch
  /\ again = NoAgain

ProcessParagraphCall ==
  /\ pc = "para"
  /\ \E corrected \in CorrectionOutputs(RunsText(doc[1].runs)) :
       \E out \in {process_paragraph(impl, doc[1].runs, corrected)} :
           /\ doc' = [doc EXCEPT ![1].runs = out.runs]
           /\ call' = [NoCall EXCEPT
                         !.para = 1,
                         !.original_text = RunsText(doc[1].runs),
                         !.corrected_text = IF out.asked THEN corrected ELSE <<>>,
                         !.diffs = out.diffs, !.asked = out.asked,
                         !.ret = out.ret, !.raised = out.raised]
           /\ pc' = IF out.raised THEN "para_raised" ELSE "para_done"
  /\ UNCHANGED <<impl, boundary_marker, doc0, paragraphs_to_process, idx,
                 modified_count, saved, corrector, bulk, batch, again>>

NextPara == ProcessParagraphCall

SpecPara == InitPara /\ [][NextPara]_vars

(***************************************************************************)
(* Boundary marker, prix fixe detection and course headers                 *)
(***************************************************************************)
BOUNDARY_MARKER ==
  <<"P", "l", "e", "a", "s", "e", " ", "d", "r", "o", "p", " ", "t", "h", "e",
    " ", "m", "e", "n", "u", " ", "c", "o", "n", "t", "e", "n", "t", " ", "b",
    "e", "l", "o", "w", " ", "o", "n", " ", "p", "a", "g", "e", " ", "2", ".">>

PRIX_FIXE_KEYWORDS ==
  <<<<"p", "r", "i", "x", " ", "f", "i", "x", "e">>,
    <<"p", "r", "e", "-", "f", "i", "x">>,
    <<"p", "r", "e", "f", "i", "x">>,
    <<"p", "r", "i", "x", "-", "f", "i", "x", "e">>,
    <<"t", "a", "s", "t", "i", "n", "g", " ", "m", "e", "n", "u">>,
    <<"t", "a", "s", "t", "i", "n", "g", " ", "e", "x", "p", "e", "r", "i", "e",
      "n", "c", "e">>,
    <<"c", "o", "u", "r", "s", "e", " ", "m", "e", "n", "u">>,
    <<"m", "u", "l", "t", "i", "-", "c", "o", "u", "r", "s", "e">>,
    <<"m", "u", "l", "t", "i", "c", "o", "u", "r", "s", "e">>,
    <<"d", "e", "g", "u", "s", "t", "a", "t", "i", "o", "n">>,
    <<"c", "h", "e", "f", "'", "s", " ", "m", "e", "n", "u">>,
    <<"c", "h", "e", "f", "'", "s", " ", "t", "a", "b", "l", "e">>>>

\* the typographic characters of COURSE_HEADER_PATTERNS are written by name:
\* U+2013 "EN_DASH", U+2014 "EM_DASH", U+201C "LDQUO", U+201D "RDQUO"
DashChars == {"-", "EN_DASH", "EM_DASH"}

QuoteChars == {"\"", "LDQUO", "RDQUO"}

Uppers ==
  <<"A", "B", "C", "D", "E", "F", "G", "H", "I", "J", "K", "L", "M", "N", "O",
    "P", "Q", "R", "S", "T", "U", "V", "W", "X", "Y", "Z">>

Lowers ==
  <<"a", "b", "c", "d", "e", "f", "g", "h", "i", "j", "k", "l", "m", "n", "o",
    "p", "q", "r", "s", "t", "u", "v", "w", "x", "y", "z">>

DigitChars == {"0", "1", "2", "3", "4", "5", "6", "7", "8", "9"}

LowerChar(c) ==
  IF \E i \in 1..Len(Uppers) : Uppers[i] = c
    THEN Lowers[CHOOSE i \in 1..Len(Uppers) : Uppers[i] = c]
    ELSE c

\* str.lower()
Lower(s) == [i \in 1..Len(s) |-> LowerChar(s[i])]

IsLetter(c) == \E i \in 1..Len(Lowers) : Lowers[i] = LowerChar(c)

\* s.startswith(prefix, i), i 0-based
StartsWithAt(s, prefix, i) ==
  /\ i + Len(prefix) <= Len(s)
  /\ \A k \in 1..Len(prefix) : s[i + k] = prefix[k]

\* needle in s
Contains(s, needle) == \E i \in 0..Len(s) : StartsWithAt(s, needle, i)

RECURSIVE SkipWhile(_, _, _)
\* the end of the maximal run, from 0-based position i, of characters of
\* class cls: "s" \s, "w" \w, "l" a letter, "q" not a quote
SkipWhile(s, i, cls) ==
  IF i < Len(s)
     /\ (CASE cls = "s" -> IsSpace(At(s, i))
           [] cls = "w" -> IsWord(At(s, i))
           [] cls = "l" -> IsLetter(At(s, i))
           [] OTHER     -> At(s, i) \notin QuoteChars)
  THEN SkipWhile(s, i + 1, cls)
  ELSE i

\* \s*[–—-]\s*["..."][^"...]+["..."] matched at position i: the tail
\* the first two patterns share
DashQuotedAt(s, i) ==
  LET d == SkipWhile(s, i, "s")
  IN  /\ d < Len(s) /\ At(s, d) \in DashChars
      /\ LET q == SkipWhile(s, d + 1, "s")
         IN  /\ q < Len(s) /\ At(s, q) \in QuoteChars
             /\ LET e == SkipWhile(s, q + 1, "q")
                IN  e > q + 1 /\ e < Len(s)

\* ^The\s+\w+ then the dash and the quoted subtitle (re.IGNORECASE)
MatchesThePattern(s) ==
  /\ StartsWithAt(Lower(s), <<"t", "h", "e">>, 0)
  /\ LET a == SkipWhile(s, 3, "s")
         b == SkipWhile(s, a, "w")
     IN  a > 3 /\ b > a /\ DashQuotedAt(s, b)

RECURSIVE WordsEnd(_, _)
\* (?:\s+[A-Z]?[a-z]+)* from position i: the end of the last word taken
WordsEnd(s, i) ==
  LET a == SkipWhile(s, i, "s")
      b == SkipWhile(s, a, "l")
  IN  IF a > i /\ b > a THEN WordsEnd(s, b) ELSE i

\* ^[A-Z][a-z]+(?:\s+[A-Z]?[a-z]+)* then the dash and the quoted subtitle
MatchesNamePattern(s) ==
  LET b == SkipWhile(s, 0, "l")
  IN  b >= 2 /\ DashQuotedAt(s, WordsEnd(s, b))

NumberWords ==
  {<<"o", "n", "e">>, <<"t", "w", "o">>, <<"t", "h", "r", "e", "e">>,
   <<"f", "o", "u", "r">>, <<"f", "i", "v", "e">>, <<"s", "i", "x">>,
   <<"s", "e", "v", "e", "n">>, <<"e", "i", "g", "h", "t">>}

\* ^(?:COURSE|Course)\s+(?:One|...|Eight|\d+)
MatchesCoursePattern(s) ==
  /\ StartsWithAt(Lower(s), <<"c", "o", "u", "r", "s", "e">>, 0)
  /\ LET a == SkipWhile(s, 6, "s")
     IN  /\ a > 6
         /\ \/ \E w \in NumberWords : StartsWithAt(Lower(s), w, a)
            \/ (a < Len(s) /\ At(s, a) \in DigitChars)

is_course_header(text) ==
  LET s == Strip(text)
  IN  /\ s # <<>>
      /\ (MatchesThePattern(s) \/ MatchesNamePattern(s) \/ MatchesCoursePattern(s))

RECURSIVE JoinWithSpace(_)
\* " ".join(texts)
JoinWithSpace(ts) ==
  IF ts = <<>> THEN <<>>
  ELSE IF Len(ts) = 1 THEN ts[1]
  ELSE ts[1] \o <<" ">> \o JoinWithSpace(Tail(ts))

\* the paragraph of document d with identity id
ParaById(d, id) == d[CHOOSE k \in 1..Len(d) : d[k].id = id]

\* is_prix_fixe_menu(paragraphs): a keyword in the first 10 paragraphs
is_prix_fixe_menu(d, ids) ==
  LET first == SubSeq(ids, 1, IF Len(ids) < 10 THEN Len(ids) ELSE 10)
      text_to_check ==
        JoinWithSpace([k \in 1..Len(first) |->
                         Lower(RunsText(ParaById(d, first[k]).runs))])
  IN  \E k \in 1..Len(PRIX_FIXE_KEYWORDS) :
        Contains(text_to_check, PRIX_FIXE_KEYWORDS[k])

(***************************************************************************)
(* add_course_numbers                                                      *)
(***************************************************************************)
\* str(num) for the course numbers of the model
NumberText(num) ==
  LET digit(n) == <<"0", "1", "2", "3", "4", "5", "6", "7", "8", "9">>[n + 1]
  IN  IF num < 10 THEN <<digit(num)>>
      ELSE <<digit(num \div 10), digit(num % 10)>>

\* the inserted paragraph: centered, one bold, yellow-highlighted run
CourseNumberPara(id, num) ==
  [id |-> id, alignment |-> "center",
   runs |-> <<[add_run(NumberText(num)) EXCEPT !.bold = "True",
                                               !.highlight = YELLOW]>>]

RECURSIVE CourseHeaders(_, _, _)
\* first pass: (para, course_number) for each course header, in order
CourseHeaders(d, ids, course_number) ==
  IF ids = <<>> THEN <<>>
  ELSE IF is_course_header(RunsText(ParaById(d, Head(ids)).runs))
  THEN <<[para |-> Head(ids), num |-> course_number + 1]>>
       \o CourseHeaders(d, Tail(ids), course_number + 1)
  ELSE CourseHeaders(d, Tail(ids), course_number)
\* the new paragraph put after the header instead of before it
AddNext(d, id, new_p) ==
  LET k == CHOOSE k \in 1..Len(d) : d[k].id = id
  IN  SubSeq(d, 1, k) \o <<new_p>> \o SubSeq(d, k + 1, Len(d))

\* para_element.addprevious(new_p)
AddPrevious(d, id, new_p) ==
  LET k == CHOOSE k \in 1..Len(d) : d[k].id = id
  IN  SubSeq(d, 1, k - 1) \o <<new_p>> \o SubSeq(d, k, Len(d))

RECURSIVE InsertNumbers(_, _)
\* second pass: from the last header to the first
InsertNumbers(d, paragraphs_with_numbers) ==
  IF paragraphs_with_numbers = <<>> THEN d
  ELSE LET n == Len(paragraphs_with_numbers)
           last == paragraphs_with_numbers[n]
       IN  InsertNumbers(
             AddPrevious(d, last.para, CourseNumberPara(Len(d) + 1, last.num)),
             SubSeq(paragraphs_with_numbers, 1, n - 1))

\* the document after add_course_numbers(doc, paragraphs_to_process)
add_course_numbers(d, ids) == InsertNumbers(d, CourseHeaders(d, ids, 0))

(***************************************************************************)
(* process_document                                                        *)
(***************************************************************************)
RECURSIVE AfterMarker(_, _, _, _)
\* the scan for the boundary marker: found is [marker_found, ids]
AfterMarker(d, k, marker, found) ==
  IF k > Len(d) THEN found
  ELSE IF found.marker_found
  THEN AfterMarker(d, k + 1, marker,
                   [found EXCEPT !.ids = Append(found.ids, d[k].id)])
  ELSE IF Contains(RunsText(d[k].runs), marker)
  THEN AfterMarker(d, k + 1, marker, [found EXCEPT !.marker_found = TRUE])
  ELSE AfterMarker(d, k + 1, marker, found)

\* the scan taking the marker's own paragraph as menu content too
MenuParagraphsWithMarker(d, marker) ==
  LET hits == {k \in 1..Len(d) : Contains(RunsText(d[k].runs), marker)}
  IN  IF hits = {} THEN [k \in 1..Len(d) |-> d[k].id]
      ELSE [k \in 1..(Len(d) - Min(hits) + 1) |-> d[Min(hits) + k - 1].id]

\* the scan without the fallback to the whole document
MenuParagraphsAfterMarkerOnly(d, marker) ==
  AfterMarker(d, 1, marker, [marker_found |-> FALSE, ids |-> <<>>]).ids

\* paragraphs_to_process: the paragraphs after the first marker paragraph, or
\* every paragraph when no paragraph holds the marker
MenuParagraphs(d, marker) ==
  LET found == AfterMarker(d, 1, marker, [marker_found |-> FALSE, ids |-> <<>>])
  IN  IF found.marker_found THEN found.ids
      ELSE [k \in 1..Len(d) |-> d[k].id]
\* the value add_course_numbers returns: course_number after the first pass
add_course_numbers_returns(d, ids) == Len(CourseHeaders(d, ids, 0))
\* process_document with the paragraphs to process collected again after the
\* course numbers were added
DocumentBegunRefreshed(d, marker) ==
  LET ids == MenuParagraphs(d, marker)
      numbered == IF is_prix_fixe_menu(d, ids)
                    THEN add_course_numbers(d, ids) ELSE d
  IN  [paragraphs_to_process |-> MenuParagraphs(numbered, marker),
       doc |-> numbered]

\* process_document up to the paragraph loop: the marker scan, then the
\* course numbers of a prix fixe menu
DocumentBegun(d, marker) ==
  LET ids == MenuParagraphs(d, marker)
  IN  [paragraphs_to_process |-> ids,
       doc |-> IF is_prix_fixe_menu(d, ids) THEN add_course_numbers(d, ids) ELSE d]

(***************************************************************************)
(* Allergen legend of a document (deprecated module)                       *)
(*                                                                         *)
(* A dict of allergen codes is the set of its <<code, name>> items.        *)
(***************************************************************************)
DEFAULT_ALLERGEN_CODES ==
  {<<<<"D">>, <<"D", "a", "i", "r", "y">>>>,
   <<<<"G">>, <<"G", "l", "u", "t", "e", "n">>>>,
   <<<<"N">>, <<"N", "u", "t", "s">>>>,
   <<<<"S">>, <<"S", "h", "e", "l", "l", "f", "i", "s", "h">>>>,
   <<<<"V">>, <<"V", "e", "g", "e", "t", "a", "r", "i", "a", "n">>>>,
   <<<<"V", "G">>, <<"V", "e", "g", "a", "n">>>>}

allergen_keywords ==
  <<<<"d", "a", "i", "r", "y">>,
    <<"g", "l", "u", "t", "e", "n">>,
    <<"n", "u", "t", "s">>,
    <<"n", "u", "t">>,
    <<"s", "h", "e", "l", "l", "f", "i", "s", "h">>,
    <<"f", "i", "s", "h">>,
    <<"v", "e", "g", "e", "t", "a", "r", "i", "a", "n">>,
    <<"v", "e", "g", "a", "n">>,
    <<"e", "g", "g">>,
    <<"c", "e", "l", "e", "r", "y">>,
    <<"c", "r", "u", "s", "t", "a", "c", "e", "a", "n">>,
    <<"s", "e", "s", "a", "m", "e">>,
    <<"s", "o", "y", "a">>,
    <<"s", "o", "y">>,
    <<"m", "u", "s", "t", "a", "r", "d">>,
    <<"l", "u", "p", "i", "n">>,
    <<"m", "o", "l", "l", "u", "s", "c">>,
    <<"s", "u", "l", "p", "h", "i", "t", "e">>,
    <<"s", "u", "l", "f", "i", "t", "e">>,
    <<"p", "e", "a", "n", "u", "t">>,
    <<"t", "r", "e", "e">>>>

\* d[key] = value
DictPut(d, key, value) == {item \in d : item[1] # key} \cup {<<key, value>>}

UpperChar(c) ==
  IF \E i \in 1..Len(Lowers) : Lowers[i] = c
    THEN Uppers[CHOOSE i \in 1..Len(Lowers) : Lowers[i] = c]
    ELSE c

\* str.upper()
Upper(s) == [i \in 1..Len(s) |-> UpperChar(s[i])]

\* str.title(): a letter is upper case after a character that is no letter,
\* lower case after a letter
Title(s) ==
  [i \in 1..Len(s) |->
     IF i = 1 \/ ~IsLetter(s[i - 1]) THEN UpperChar(s[i]) ELSE LowerChar(s[i])]
RECURSIVE JoinWithBar(_)
\* "|".join(entries)
JoinWithBar(entries) ==
  IF entries = <<>> THEN <<>>
  ELSE IF Len(entries) = 1 THEN entries[1]
  ELSE entries[1] \o <<"|">> \o JoinWithBar(Tail(entries))

RECURSIVE SplitChar(_, _)
\* s.split(c) for a one-character separator
SplitChar(s, c) ==
  LET hits == {i \in 1..Len(s) : s[i] = c}
  IN  IF hits = {} THEN <<s>>
      ELSE <<SubSeq(s, 1, Min(hits) - 1)>>
           \o SplitChar(SubSeq(s, Min(hits) + 1, Len(s)), c)

\* [=\-:]? at position i
SkipSeparator(entry, i) ==
  IF i < Len(entry) /\ At(entry, i) \in {"=", "-", ":"} THEN i + 1 ELSE i

\* (?:\s+\w+)? after the first word of the name, which ends at w1; s2 is
\* the end of the blanks that follow it
LegendNameEnd(entry, w1, s2) ==
  IF s2 > w1 /\ SkipWhile(entry, s2, "w") > s2
    THEN SkipWhile(entry, s2, "w") ELSE w1

\* the groups of the entry pattern: the code is entry[0:n], the name starts
\* at i3 and its first word ends at w1
LegendGroups(entry, n, i3, w1) ==
  [matched |-> w1 > i3,
   code |-> Slice(entry, 0, n),
   name |-> Slice(entry, i3, LegendNameEnd(entry, w1, SkipWhile(entry, w1, "s")))]

\* the entry pattern from position i3 on, where the name starts
LegendNameAt(entry, n, i3) == LegendGroups(entry, n, i3, SkipWhile(entry, i3, "w"))

\* ^([A-Z]{1,3})\s*[=\-:]?\s*(\w+(?:\s+\w+)?) with a code of n letters,
\* re.IGNORECASE: whether it matches entry, and the two groups
LegendMatchWith(entry, n) ==
  LegendNameAt(entry, n,
    SkipWhile(entry, SkipSeparator(entry, SkipWhile(entry, n, "s")), "s"))

\* the match with the longest code among fits, the code lengths that match
LegendLongest(entry, fits) ==
  IF fits = {} THEN [matched |-> FALSE, code |-> <<>>, name |-> <<>>]
  ELSE LegendMatchWith(entry, Max(fits))

\* the code lengths up to 3 and up to the leading letters of entry
CodeLengths(letters) == 1..(IF letters < 3 THEN letters ELSE 3)

\* re.match of the entry pattern: the longest code first, as the greedy
\* {1,3} tries them
LegendMatch(entry) ==
  LegendLongest(entry,
    {n \in CodeLengths(SkipWhile(entry, 0, "l")) :
       LegendMatchWith(entry, n).matched})

\* any(keyword in name for keyword in allergen_keywords) or len(code) <= 2,
\* for code = match.group(1).upper() and name = match.group(2).lower()
LegendEntryValid(match) ==
  /\ match.matched
  /\ \/ \E k \in 1..Len(allergen_keywords) :
          Contains(Lower(match.name), allergen_keywords[k])
     \/ Len(match.code) <= 2

\* the body of the loop over the entries for one entry's match
LegendPut(found, match) ==
  IF LegendEntryValid(match)
    THEN [allergen_codes |-> DictPut(found.allergen_codes, Upper(match.code),
                                     Title(Lower(match.name))),
          valid_entries |-> found.valid_entries + 1]
  ELSE found

RECURSIVE LegendEntries(_, _)
\* the loop over the entries of one paragraph: allergen_codes and
\* valid_entries, starting from found
LegendEntries(entries, found) ==
  IF entries = <<>> THEN found
  ELSE LegendEntries(Tail(entries),
                     LegendPut(found, LegendMatch(Strip(Head(entries)))))

\* if valid_entries >= 5: return allergen_codes
LegendIfEnough(found) ==
  IF found.valid_entries >= 5 THEN found.allergen_codes ELSE {}

\* the legend the stripped text of a paragraph holds, or the empty dict
LegendOfText(text) ==
  IF text # <<>> /\ Contains(text, <<"|">>) /\ Len(SplitChar(text, "|")) >= 5
    THEN LegendIfEnough(LegendEntries(SplitChar(text, "|"),
                                      [allergen_codes |-> {}, valid_entries |-> 0]))
  ELSE {}

\* the legend one paragraph text holds, or the empty dict
ParagraphLegend(para_text) == LegendOfText(Strip(para_text))

RECURSIVE FirstLegend(_)
\* a paragraph's legend when it holds one, else the legend of the paragraphs
\* after it
LegendOrNext(allergen_codes, rest) ==
  IF allergen_codes # {} THEN allergen_codes ELSE FirstLegend(rest)

\* for para in check_paragraphs: the legend of the first paragraph that
\* holds one, or the empty dict
FirstLegend(check_paragraphs) ==
  IF check_paragraphs = <<>> THEN {}
  ELSE LegendOrNext(ParagraphLegend(Head(check_paragraphs)),
                    Tail(check_paragraphs))

\* detect_allergen_legend(paragraphs): the legend of the first of the last 15
\* paragraphs that holds one, or the empty dict
detect_allergen_legend(texts) ==
  FirstLegend(IF Len(texts) > 15
                THEN SubSeq(texts, Len(texts) - 14, Len(texts))
                ELSE texts)
\* a fallback that keeps the codes the corrector already has
LegendOrCurrent(doc_legend) ==
  IF doc_legend # {} THEN doc_legend ELSE corrector.allergen_codes

\* if doc_legend: return doc_legend, else DEFAULT_ALLERGEN_CODES.copy()
LegendOrDefault(doc_legend) ==
  IF doc_legend # {} THEN doc_legend ELSE DEFAULT_ALLERGEN_CODES

get_allergen_codes_for_document(texts) ==
  LegendOrDefault(detect_allergen_legend(texts))

(***************************************************************************)
(* AICorrector (ai_corrector.py)                                           *)
(*                                                                         *)
(* What the external service does with a request is drawn from             *)
(* ServiceOutcome records: kind "response" with the content returned,      *)
(* kind "rate_limit" (the request raises an error whose message holds      *)
(* 429), kind "error" (the request raises another error).                  *)
(***************************************************************************)
\* _build_system_prompt(): the prompt is a function of the allergen codes
\* alone; it is represented by them
build_system_prompt(allergen_codes) == [allergen_list |-> allergen_codes]

\* AICorrector(): the corrector after construction
AICorrector ==
  [allergen_codes |-> DEFAULT_ALLERGEN_CODES,
   system_prompt |-> build_system_prompt(DEFAULT_ALLERGEN_CODES)]

\* AICorrector.set_allergen_codes
set_allergen_codes(self, allergen_codes) ==
  [self EXCEPT !.allergen_codes = allergen_codes,
               !.system_prompt = build_system_prompt(allergen_codes)]

Response(content) == [kind |-> "response", content |-> content]

RateLimitError == [kind |-> "rate_limit", content |-> <<>>]

OtherError == [kind |-> "error", content |-> <<>>]

\* a correct_text that answers the empty text when the service fails
correct_text_blank_on_failure(text, outcome) ==
  IF IsBlank(text) THEN [exc |-> None, value |-> text, requested |-> FALSE]
  ELSE IF outcome.kind = "response"
    THEN [exc |-> None, value |-> Strip(outcome.content), requested |-> TRUE]
  ELSE [exc |-> None, value |-> <<>>, requested |-> TRUE]

\* AICorrector.correct_text(text) when the service does outcome:
\*   exc        the exception that leaves the call, or None
\*   value      the value returned
\*   requested  whether the service was called
correct_text(text, outcome) ==
  IF IsBlank(text) THEN [exc |-> None, value |-> text, requested |-> FALSE]
  ELSE IF outcome.kind = "response"
    THEN [exc |-> None, value |-> Strip(outcome.content), requested |-> TRUE]
  ELSE \* except Exception: return text
       [exc |-> None, value |-> text, requested |-> TRUE]

(***************************************************************************)
(* RateLimitedCorrector (bulk_process.py)                                  *)
(***************************************************************************)
MAX_RETRIES == 3

\* time.sleep(delay * factor), the delay written by its name
Sleep(delay, factor) == <<delay, factor>>

\* "429" in str(e) or "rate_limit" in str(e).lower(), for the exception of a
\* service outcome of kind exc
IsRateLimit(exc) == exc = "rate_limit"

RECURSIVE RetryLoop(_, _, _, _, _, _)
\* RateLimitedCorrector.correct_text from iteration attempt of its loop on:
\* outcomes[n] is what the service does with the n-th request; call_count,
\* sleeps and requests (the number of requests made) are carried along
RetryLoop(text, outcomes, attempt, call_count, sleeps, requests) ==
  IF attempt >= MAX_RETRIES
    THEN \* max retries exceeded, returning original
         [value |-> text, call_count |-> call_count, sleeps |-> sleeps,
          requests |-> requests]
  ELSE LET slept == IF call_count > 0
                      THEN Append(sleeps, Sleep("DELAY_BETWEEN_PARAGRAPHS", 1))
                      ELSE sleeps
           answer == correct_text(text, outcomes[requests + 1])
           made == IF answer.requested THEN requests + 1 ELSE requests
       IN  IF answer.exc = None
             THEN [value |-> answer.value, call_count |-> call_count + 1,
                   sleeps |-> slept, requests |-> made]
           ELSE IF IsRateLimit(answer.exc)
             THEN RetryLoop(text, outcomes, attempt + 1, call_count + 1,
                            Append(slept, Sleep("RETRY_DELAY", attempt + 1)),
                            made)
           ELSE [value |-> text, call_count |-> call_count + 1,
                 sleeps |-> slept, requests |-> made]

\* RateLimitedCorrector.correct_text(text)
rate_limited_correct_text(self, text, outcomes) ==
  RetryLoop(text, outcomes, 0, self.call_count, <<>>, 0)

\* RateLimitedCorrector(corrector)
RateLimitedCorrector == [corrector |-> "AICorrector", call_count |-> 0]

\* the correction function handed to process_document, called on text:
\* corrector.correct_text, or rate_limited.correct_text in a bulk run
ai_correction_func(rate_limited, text, outcomes) ==
  IF rate_limited = NoRateLimited
    THEN LET answer == correct_text(text, outcomes[1])
         IN  [value |-> answer.value, call_count |-> 0, sleeps |-> <<>>,
              requests |-> IF answer.requested THEN 1 ELSE 0]
  ELSE rate_limited_correct_text(rate_limited, text, outcomes)

\* the kinds of the outcomes of the first n requests
RequestKinds(outcomes, n) == [k \in 1..n |-> outcomes[k].kind]

(***************************************************************************)
(* Spec: process_document on a document                                    *)
(***************************************************************************)
\* longest generated document, in paragraphs
MaxParas == 3

PrefixText == <<"p", "r", "e", "f", "i", "x">>

CourseOneText == <<"C", "o", "u", "r", "s", "e", " ", "1">>

TheSparkText == <<"T", "h", "e", " ", "a", "EN_DASH", "LDQUO", "a", "RDQUO">>

\* the paragraphs documents are generated from, as run lists
DocumentParagraphs ==
  {<<BoldRun(BOUNDARY_MARKER)>>,
   <<PlainRun(PrefixText)>>,
   <<BoldRun(CourseOneText)>>,
   <<PlainRun(TheSparkText)>>,
   <<BoldRun(<<"a">>), PlainRun(<<",", "a">>)>>,
   <<PlainRun(<<"a", " ">>), StruckRun(<<"a">>), HighlightedRun(<<",">>)>>,
   <<>>}

LegendText ==
  <<"D", " ", "d", "a", "i", "r", "y", "|", "G", " ", "g", "l", "u", "t", "e",
    "n", "|", "N", " ", "n", "u", "t", "s", "|", "S", " ", "s", "o", "y", "a",
    "|", "E", " ", "e", "g", "g">>

\* documents whose menu content ends with an allergen legend
LegendDocuments ==
  {<<<<BoldRun(BOUNDARY_MARKER)>>,
     <<BoldRun(<<"a">>), PlainRun(<<",", "a">>)>>,
     <<PlainRun(LegendText)>>>>,
   <<<<PlainRun(<<"a", " ">>), StruckRun(<<"a">>), HighlightedRun(<<",">>)>>,
     <<PlainRun(LegendText)>>>>}

DocumentInputs ==
  UNION {[1..n -> DocumentParagraphs] : n \in 1..MaxParas}
  \cup LegendDocuments

\* what the service may do with the request for a text: fail, or answer the
\* text itself, the text with a character more, or the text with a
\* character no run can hold
ServiceOutcomes(original_text) ==
  {RateLimitError, OtherError,
   Response(original_text), Response(original_text \o <<"a">>),
   Response(original_text \o <<"NUL">>)}

\* the outcomes of the requests one call of the correction function may make
OutcomeSequences(rate_limited, original_text) ==
  IF rate_limited = NoRateLimited
    THEN {<<o>> : o \in ServiceOutcomes(original_text)}
  ELSE [1..MAX_RETRIES -> ServiceOutcomes(original_text)]

\* process_menu.py, test_with_ai: corrector = AICorrector(), then
\* redliner.process_document(file, corrector.correct_text, output)
Init ==
  /\ impl \in Impls
  /\ boundary_marker = BOUNDARY_MARKER
  /\ \E ps \in DocumentInputs : doc = [k \in 1..Len(ps) |-> MkPara(k, ps[k])]
  /\ doc0 = doc
  /\ pc = "start"
  /\ paragraphs_to_process = <<>>
  /\ idx = 0
  /\ modified_count = 0
  /\ saved = <<>>
  /\ call = NoCall
  /\ corrector = AICorrector
  /\ bulk = NoBulk
  /\ batch = NoBatch
  /\ again = NoAgain

\* Document(file_path) is loaded, the marker is looked for, the deprecated
\* module hands the document's allergen codes to the corrector it was given
\* (the model always gives it one, as process_folder does), course numbers
\* are added
ProcessDocumentBegin ==
  /\ pc = "start"
  /\ LET begun == DocumentBegun(doc, boundary_marker)
         ids == begun.paragraphs_to_process
         texts == [k \in 1..Len(ids) |-> RunsText(ParaById(doc, ids[k]).runs)]
     IN  /\ paragraphs_to_process' = ids
         /\ doc' = begun.doc
         /\ corrector' = IF impl = "deprecated"
                           THEN set_allergen_codes(
                                  corrector, get_allergen_codes_for_document(texts))
                           ELSE corrector
  /\ idx' = 0
  /\ modified_count' = 0
  /\ pc' = "loop"
  /\ UNCHANGED <<impl, boundary_marker, doc0, saved, call, bulk, batch, again>>

\* the text of the paragraph the loop visits next
NextParagraphText ==
  RunsText(ParaById(doc, paragraphs_to_process[idx + 1]).runs)

\* one iteration of "for para in paragraphs_to_process" when the requests of
\* the correction function have the given outcomes; an exception of
\* process_paragraph leaves process_document
ProcessParagraphWith(outcomes) ==
  LET id == paragraphs_to_process[idx + 1]
      k == CHOOSE k \in 1..Len(doc) : doc[k].id = id
      text == RunsText(doc[k].runs)
  IN  \E answer \in {ai_correction_func(bulk.rate_limited, text, outcomes)} :
      \E out \in {process_paragraph(impl, doc[k].runs, answer.value)} :
        /\ doc' = [doc EXCEPT ![k].runs = out.runs]
        /\ call' = [para |-> id, original_text |-> text,
                    corrected_text |-> IF out.asked THEN answer.value ELSE <<>>,
                    diffs |-> out.diffs, asked |-> out.asked,
                    ret |-> out.ret, raised |-> out.raised,
                    requests |-> IF out.asked
                                   THEN RequestKinds(outcomes, answer.requests)
                                   ELSE <<>>,
                    sleeps |-> IF out.asked THEN answer.sleeps ELSE <<>>,
                    system_prompt |-> IF out.asked
                                        THEN corrector.system_prompt
                                        ELSE None]
        /\ bulk' = IF out.asked /\ bulk.rate_limited # NoRateLimited
                     THEN [bulk EXCEPT !.rate_limited.call_count =
                                         answer.call_count]
                     ELSE bulk
        /\ modified_count' = IF out.ret THEN modified_count + 1
                                        ELSE modified_count
        /\ pc' = IF out.raised THEN "raised" ELSE "loop"
        /\ idx' = IF out.raised THEN idx ELSE idx + 1

\* one iteration of "for para in paragraphs_to_process", the service
\* answering as it likes
ProcessParagraph ==
  /\ pc = "loop"
  /\ idx < Len(paragraphs_to_process)
  /\ \E outcomes \in OutcomeSequences(bulk.rate_limited, NextParagraphText) :
       ProcessParagraphWith(outcomes)
  /\ UNCHANGED <<impl, boundary_marker, doc0, paragraphs_to_process, saved,
                 corrector, batch, again>>

\* doc.save(output_path) with any paragraph of the loop still to visit
SaveDocumentEarly ==
  /\ pc = "loop"
  /\ saved' = doc
  /\ pc' = "done"
  /\ UNCHANGED <<impl, boundary_marker, doc, doc0, paragraphs_to_process, idx,
                 modified_count, call, corrector, bulk, batch, again>>

\* doc.save(output_path)
SaveDocument ==
  /\ pc = "loop"
  /\ idx = Len(paragraphs_to_process)
  /\ saved' = doc
  /\ pc' = "done"
  /\ UNCHANGED <<impl, boundary_marker, doc, doc0, paragraphs_to_process, idx,
                 modified_count, call, corrector, bulk, batch, again>>

Next == ProcessDocumentBegin \/ ProcessParagraph \/ SaveDocument

Spec == Init /\ [][Next]_vars

(***************************************************************************)
(* SpecAgain: process_document run on a document, then run again on the    *)
(* document it saved, with the same correction function                    *)
(***************************************************************************)
\* the correction functions: the service answers the text itself, or the
\* text with a word more
CorrectionFunctions == {"same", "longer"}

\* the outcome of the request the correction function func makes for a text
FunctionOutcome(func, text) ==
  IF func = "same" THEN Response(text) ELSE Response(text \o <<" ", "a">>)

\* the paragraphs the documents of the two runs are generated from
AgainParagraphs ==
  {<<PlainRun(PrefixText)>>,
   <<BoldRun(CourseOneText)>>,
   <<BoldRun(<<"a">>), PlainRun(<<",", "a">>)>>,
   <<PlainRun(<<"a", " ">>)>>}

\* Document(file_path): the paragraphs of a saved document
Loaded(d) == [k \in 1..Len(d) |-> [d[k] EXCEPT !.id = k]]

InitAgain ==
  /\ impl \in Impls
  /\ boundary_marker = BOUNDARY_MARKER
  /\ \E n \in 1..MaxParas : \E ps \in [1..n -> AgainParagraphs] :
       doc = [k \in 1..Len(ps) |-> MkPara(k, ps[k])]
  /\ doc0 = doc
  /\ pc = "start"
  /\ paragraphs_to_process = <<>>
  /\ idx = 0
  /\ modified_count = 0
  /\ saved = <<>>
  /\ call = NoCall
  /\ corrector = AICorrector
  /\ bulk = NoBulk
  /\ batch = NoBatch
  /\ \E func \in CorrectionFunctions : again = [NoAgain EXCEPT !.func = func]

\* one iteration of "for para in paragraphs_to_process" with the correction
\* function of the two runs
ProcessParagraphAgain ==
  /\ pc = "loop"
  /\ idx < Len(paragraphs_to_process)
  /\ ProcessParagraphWith(<<FunctionOutcome(again.func, NextParagraphText)>>)
  /\ UNCHANGED <<impl, boundary_marker, doc0, paragraphs_to_process, saved,
                 corrector, batch, again>>

\* process_document(output_path_of_the_first_run, ai_correction_func): the
\* saved document is loaded
ProcessDocumentAgain ==
  /\ pc = "done"
  /\ again.pass = 1
  /\ again' = [again EXCEPT !.pass = 2, !.first = Loaded(saved)]
  /\ doc' = Loaded(saved)
  /\ doc0' = Loaded(saved)
  /\ pc' = "start"
  /\ paragraphs_to_process' = <<>>
  /\ idx' = 0
  /\ modified_count' = 0
  /\ saved' = <<>>
  /\ call' = NoCall
  /\ UNCHANGED <<impl, boundary_marker, corrector, bulk, batch>>

NextAgain ==
  \/ ProcessDocumentBegin
  \/ ProcessParagraphAgain
  \/ SaveDocument
  \/ ProcessDocumentAgain

SpecAgain == InitAgain /\ [][NextAgain]_vars

(***************************************************************************)
(* SpecLegend: detect_allergen_legend called on the paragraphs of a        *)
(* document                                                                *)
(***************************************************************************)
\* most entries in a generated legend line
MaxEntries == 5

\* the entries legend lines are generated from: a code with an allergen
\* name, a short code with another word, a three-letter code with another
\* word, no code at all
LegendEntryTexts ==
  {<<"D", " ", "d", "a", "i", "r", "y">>,
   <<"a", "a", " ", "b", "b">>,
   <<"A", "B", "C", " ", "b", "b">>,
   <<",">>}

\* the lines of 4 to MaxEntries entries
LegendLines ==
  UNION {{JoinWithBar(es) : es \in [1..n -> LegendEntryTexts]} :
           n \in 4..MaxEntries}

\* the documents: a line, then 14 or 15 paragraphs of other text
LegendParagraphs ==
  {<<line>> \o [k \in 1..n |-> <<"a">>] : line \in LegendLines, n \in {14, 15}}

InitLegend ==
  /\ impl = "deprecated"
  /\ boundary_marker = <<>>
  /\ doc = <<>>
  /\ doc0 = <<>>
  /\ pc = "legend"
  /\ paragraphs_to_process = <<>>
  /\ idx = 0
  /\ modified_count = 0
  /\ saved = <<>>
  /\ \E ps \in LegendParagraphs : call = [paragraphs |-> ps, legend |-> {}]
  /\ corrector = NoCorrector
  /\ bulk = NoBulk
  /\ batch = NoBatch
  /\ again = NoAgain

\* doc_legend = detect_allergen_legend(paragraphs)
DetectAllergenLegend ==
  /\ pc = "legend"
  /\ call' = [call EXCEPT !.legend = detect_allergen_legend(call.paragraphs)]
  /\ pc' = "legend_done"
  /\ UNCHANGED <<impl, boundary_marker, doc, doc0, paragraphs_to_process, idx,
                 modified_count, saved, corrector, bulk, batch, again>>

NextLegend == DetectAllergenLegend

SpecLegend == InitLegend /\ [][NextLegend]_vars

(***************************************************************************)
(* SpecBatch: BatchAICorrector.correct_batch called on a list of texts     *)
(***************************************************************************)
\* most texts in a generated batch
MaxBatch == 2

\* the delimiter of the batch
BatchDelimiter == <<"|", "|", "|">>

RECURSIVE JoinWith(_, _)
\* sep.join(ts)
JoinWith(ts, sep) ==
  IF ts = <<>> THEN <<>>
  ELSE IF Len(ts) = 1 THEN ts[1]
  ELSE ts[1] \o sep \o JoinWith(Tail(ts), sep)

RECURSIVE SplitAt(_, _, _)
\* s.split(sep) when hits are the positions where sep occurs in s: the cut
\* is at the leftmost one
SplitAt(s, sep, hits) ==
  IF hits = {} THEN <<s>>
  ELSE <<Slice(s, 0, Min(hits))>>
       \o SplitAt(Slice(s, Min(hits) + Len(sep), Len(s)), sep,
                  {i - Min(hits) - Len(sep) :
                     i \in {h \in hits : h >= Min(hits) + Len(sep)}})

\* s.split(sep) for a separator of one or more characters
SplitOn(s, sep) ==
  SplitAt(s, sep, {i \in 0..Len(s) : StartsWithAt(s, sep, i)})

\* the response message has no content: .strip() raises AttributeError
NoContent == [kind |-> "no_content", content |-> <<>>]

\* the corrected_texts of a response, returned whatever their number
correct_batch_unchecked(texts, outcome) ==
  IF texts = <<>> THEN <<>>
  ELSE IF outcome.kind = "response"
    THEN SplitOn(Strip(outcome.content), BatchDelimiter)
  ELSE texts

\* the answer of correct_batch to the split response
BatchAnswer(texts, corrected_texts) ==
  IF Len(corrected_texts) # Len(texts) THEN texts ELSE corrected_texts

\* BatchAICorrector.correct_batch(texts) when the service does outcome
correct_batch(texts, outcome) ==
  IF texts = <<>> THEN <<>>
  ELSE IF outcome.kind = "response"
    THEN BatchAnswer(texts, SplitOn(Strip(outcome.content), BatchDelimiter))
  ELSE \* except Exception: return texts
       texts

\* the texts batches are generated from
BatchTexts ==
  {<<>>, <<"a">>, <<",", "a">>, <<"|">>, BatchDelimiter}

\* the items responses are generated from
ReplyItems == {<<>>, <<"a">>, <<"a", " ">>, <<"|">>}

\* what the service may do with a batch: fail, answer without content, or
\* answer up to MaxBatch + 1 items joined by the delimiter, with or without
\* blanks around the whole
BatchOutcomes ==
  {RateLimitError, OtherError, NoContent}
  \cup UNION {
    {Response(JoinWith(items, BatchDelimiter)),
     Response(<<" ">> \o JoinWith(items, BatchDelimiter) \o <<" ">>)}
    : items \in UNION {[1..n -> ReplyItems] : n \in 1..(MaxBatch + 1)}}

InitBatch ==
  /\ impl = "live"
  /\ boundary_marker = <<>>
  /\ doc = <<>>
  /\ doc0 = <<>>
  /\ pc = "batch"
  /\ paragraphs_to_process = <<>>
  /\ idx = 0
  /\ modified_count = 0
  /\ saved = <<>>
  /\ call = NoCall
  /\ corrector = NoCorrector
  /\ bulk = NoBulk
  /\ \E n \in 0..MaxBatch : \E texts \in [1..n -> BatchTexts] :
       batch = [NoBatch EXCEPT !.texts = texts]
  /\ again = NoAgain

\* correct_batch(texts)
CorrectBatch ==
  /\ pc = "batch"
  /\ \E outcome \in BatchOutcomes :
       batch' = [batch EXCEPT !.outcome = outcome,
                              !.result = correct_batch(batch.texts, outcome)]
  /\ pc' = "batched"
  /\ UNCHANGED <<impl, boundary_marker, doc, doc0, paragraphs_to_process, idx,
                 modified_count, saved, call, corrector, bulk, again>>

NextBatch == CorrectBatch

SpecBatch == InitBatch /\ [][NextBatch]_vars

(***************************************************************************)
(* SpecRetry: RateLimitedCorrector.correct_text called on a text           *)
(***************************************************************************)
\* rate_limited = RateLimitedCorrector(AICorrector()), with no call or one
\* call made before
InitRetry ==
  /\ impl = "live"
  /\ boundary_marker = <<>>
  /\ doc = <<>>
  /\ doc0 = <<>>
  /\ pc = "retry"
  /\ paragraphs_to_process = <<>>
  /\ idx = 0
  /\ modified_count = 0
  /\ saved = <<>>
  /\ \E t \in TextsUpTo(MaxLen) : call = [NoCall EXCEPT !.original_text = t]
  /\ corrector = AICorrector
  /\ \E c \in 0..1 :
       bulk = [NoBulk EXCEPT
                 !.rate_limited = [RateLimitedCorrector EXCEPT !.call_count = c]]
  /\ batch = NoBatch
  /\ again = NoAgain

\* rate_limited.correct_text(text): call.requests are the kinds of the
\* outcomes of the requests made, call.sleeps the waits
RateLimitedCorrectText ==
  /\ pc = "retry"
  /\ \E outcomes \in [1..MAX_RETRIES -> ServiceOutcomes(call.original_text)] :
       LET answer == rate_limited_correct_text(bulk.rate_limited,
                                               call.original_text, outcomes)
       IN  /\ call' = [call EXCEPT
                         !.corrected_text = answer.value,
                         !.asked = TRUE,
                         !.requests = RequestKinds(outcomes, answer.requests),
                         !.sleeps = answer.sleeps,
                         !.system_prompt = corrector.system_prompt]
           /\ bulk' = [bulk EXCEPT !.rate_limited.call_count = answer.call_count]
  /\ pc' = "retried"
  /\ UNCHANGED <<impl, boundary_marker, doc, doc0, paragraphs_to_process, idx,
                 modified_count, saved, corrector, batch, again>>

NextRetry == RateLimitedCorrectText

SpecRetry == InitRetry /\ [][NextRetry]_vars

(***************************************************************************)
(* SpecBulk: process_folder (bulk_process.py) on a folder of documents     *)
(*                                                                         *)
(* A file is named by its position in sorted(docx_files).  With the live   *)
(* module the call of process_document is rejected (it has no parameter    *)
(* corrector); with the deprecated module the document is processed by     *)
(* the actions of Spec.                                                    *)
(***************************************************************************)
\* most files in the folder
MaxFiles == 2

\* the documents the folder's files are drawn from
BulkDocuments ==
  {<<<<BoldRun(<<"a">>), PlainRun(<<",", "a">>)>>>>,
   <<<<PlainRun(<<",">>)>>, <<PlainRun(<<"a", " ">>), StruckRun(<<"a">>)>>>>,
   <<<<BoldRun(BOUNDARY_MARKER)>>, <<PlainRun(<<"a">>)>>>>,
   <<<<PlainRun(<<"a">>)>>, <<HighlightedRun(LegendText)>>>>}

\* process_folder up to the loop: the files are found, corrector,
\* rate_limited and redliner are built, successful = [] and failed = []
InitBulk ==
  /\ impl \in Impls
  /\ boundary_marker = BOUNDARY_MARKER
  /\ doc = <<>>
  /\ doc0 = <<>>
  /\ pc = "bulk_loop"
  /\ paragraphs_to_process = <<>>
  /\ idx = 0
  /\ modified_count = 0
  /\ saved = <<>>
  /\ call = NoCall
  /\ corrector = AICorrector
  /\ \E n \in 1..MaxFiles : \E files \in [1..n -> BulkDocuments] :
       bulk = [docx_files |-> files, i |-> 0, successful |-> <<>>,
               failed |-> <<>>, output |-> {},
               rate_limited |-> RateLimitedCorrector]
  /\ batch = NoBatch
  /\ again = NoAgain

\* redliner.process_document(..., corrector=rate_limited) on the live
\* module: TypeError, caught by the except of the loop body
BulkCallRejected ==
  /\ pc = "bulk_loop"
  /\ bulk.i < Len(bulk.docx_files)
  /\ impl = "live"
  /\ bulk' = [bulk EXCEPT !.i = bulk.i + 1,
                          !.failed = Append(bulk.failed,
                                            <<bulk.i + 1, "TypeError">>)]
  /\ UNCHANGED <<impl, boundary_marker, doc, doc0, pc, paragraphs_to_process,
                 idx, modified_count, saved, call, corrector, batch, again>>

\* redliner.process_document(..., corrector=rate_limited) on the deprecated
\* module: the next file is loaded
BulkCallBegin ==
  /\ pc = "bulk_loop"
  /\ bulk.i < Len(bulk.docx_files)
  /\ impl = "deprecated"
  /\ LET ps == bulk.docx_files[bulk.i + 1]
     IN  doc' = [k \in 1..Len(ps) |-> MkPara(k, ps[k])]
  /\ doc0' = doc'
  /\ paragraphs_to_process' = <<>>
  /\ idx' = 0
  /\ modified_count' = 0
  /\ saved' = <<>>
  /\ call' = NoCall
  /\ pc' = "start"
  /\ UNCHANGED <<impl, boundary_marker, corrector, bulk, batch, again>>

\* process_document returned: successful.append(docx_file.name)
BulkDocumentSaved ==
  /\ pc = "done"
  /\ bulk' = [bulk EXCEPT !.i = bulk.i + 1,
                          !.successful = Append(bulk.successful, bulk.i + 1),
                          !.output = bulk.output \cup {bulk.i + 1}]
  /\ pc' = "bulk_loop"
  /\ UNCHANGED <<impl, boundary_marker, doc, doc0, paragraphs_to_process, idx,
                 modified_count, saved, call, corrector, batch, again>>

\* a process_document that raised ends the run: a loop without the except
BulkDocumentFailedStops ==
  /\ pc = "raised"
  /\ bulk' = [bulk EXCEPT !.failed = Append(bulk.failed,
                                            <<bulk.i + 1, "ValueError">>)]
  /\ pc' = "bulk_done"
  /\ UNCHANGED <<impl, boundary_marker, doc, doc0, paragraphs_to_process, idx,
                 modified_count, saved, call, corrector, batch, again>>

\* process_document raised: except Exception as e:
\* failed.append((docx_file.name, str(e)))
BulkDocumentFailed ==
  /\ pc = "raised"
  /\ bulk' = [bulk EXCEPT !.i = bulk.i + 1,
                          !.failed = Append(bulk.failed,
                                            <<bulk.i + 1, "ValueError">>)]
  /\ pc' = "bulk_loop"
  /\ UNCHANGED <<impl, boundary_marker, doc, doc0, paragraphs_to_process, idx,
                 modified_count, saved, call, corrector, batch, again>>

\* the loop is over: the summary is printed
BulkSummary ==
  /\ pc = "bulk_loop"
  /\ bulk.i = Len(bulk.docx_files)
  /\ pc' = "bulk_done"
  /\ UNCHANGED <<impl, boundary_marker, doc, doc0, paragraphs_to_process, idx,
                 modified_count, saved, call, corrector, bulk, batch, again>>

NextBulk ==
  \/ BulkCallRejected
  \/ BulkCallBegin
  \/ ProcessDocumentBegin
  \/ ProcessParagraph
  \/ SaveDocument
  \/ BulkDocumentSaved
  \/ BulkDocumentFailed
  \/ BulkSummary

SpecBulk == InitBulk /\ [][NextBulk]_vars

(***************************************************************************)
(* Properties                                                              *)
(***************************************************************************)
RECURSIVE SpansText(_, _)
\* the texts of the spans of diffs whose operation is in ops, joined in order
SpansText(diffs, ops) ==
  IF diffs = <<>> THEN <<>>
  ELSE (IF Head(diffs).op \in ops THEN Head(diffs).text ELSE <<>>)
       \o SpansText(Tail(diffs), ops)

RECURSIVE WithoutWhitespace(_)
WithoutWhitespace(s) ==
  IF s = <<>> THEN <<>>
  ELSE (IF IsSpace(Head(s)) THEN <<>> ELSE <<Head(s)>>)
       \o WithoutWhitespace(Tail(s))

HasOp(diffs, op) == \E k \in 1..Len(diffs) : diffs[k].op = op

\* whether opcode oc of the token alignment changes whitespace only
WhitespaceOnlyChange(oc, orig_tokens, corr_tokens) ==
  /\ oc.tag # "equal"
  /\ IsBlank(Join(Slice(orig_tokens, oc.i1, oc.i2)))
  /\ IsBlank(Join(Slice(corr_tokens, oc.j1, oc.j2)))

\* whether some opcode of the alignment of the two texts changes whitespace
\* only
SomeWhitespaceOnlyChange(original_text, corrected_text) ==
  LET orig_tokens == tokenize(original_text)
      corr_tokens == tokenize(corrected_text)
      ocs == get_opcodes(orig_tokens, corr_tokens)
  IN  \E k \in 1..Len(ocs) : WhitespaceOnlyChange(ocs[k], orig_tokens, corr_tokens)

\* C2 as the specification states it: joining the Equal and Delete spans
\* gives the original text exactly, and joining the Equal and Insert spans
\* gives the corrected text exactly.
C2_ConcatenationExact ==
  pc = "diffed" =>
    /\ SpansText(call.diffs, {DIFF_EQUAL, DIFF_DELETE}) = call.original_text
    /\ SpansText(call.diffs, {DIFF_EQUAL, DIFF_INSERT}) = call.corrected_text

\* C2, amended: joining the Equal and Delete spans gives the original text,
\* and joining the Equal and Insert spans gives the corrected text, up to
\* whitespace characters (the deprecated module re-tags whitespace-only
\* changes as Equal); both hold exactly in the live module, which re-tags
\* nothing, and in the deprecated module when no opcode changes whitespace
\* only.
C2_ConcatenationUpToWhitespace ==
  pc = "diffed" =>
    /\ WithoutWhitespace(SpansText(call.diffs, {DIFF_EQUAL, DIFF_DELETE}))
         = WithoutWhitespace(call.original_text)
    /\ WithoutWhitespace(SpansText(call.diffs, {DIFF_EQUAL, DIFF_INSERT}))
         = WithoutWhitespace(call.corrected_text)
    /\ (\/ impl = "live"
        \/ ~SomeWhitespaceOnlyChange(call.original_text, call.corrected_text)) =>
         /\ SpansText(call.diffs, {DIFF_EQUAL, DIFF_DELETE}) = call.original_text
         /\ SpansText(call.diffs, {DIFF_EQUAL, DIFF_INSERT}) = call.corrected_text

\* C2's case: a script with a real change (a Delete and an Insert span) and a
\* re-tagged whitespace change, so that the spans no longer give the
\* corrected text exactly
C2_Witness ==
  /\ pc = "diffed"
  /\ HasOp(call.diffs, DIFF_DELETE) /\ HasOp(call.diffs, DIFF_INSERT)
  /\ SpansText(call.diffs, {DIFF_EQUAL, DIFF_INSERT}) # call.corrected_text

\* C8: every delete, insert or replace opcode whose text on both sides is
\* whitespace only is emitted as Equal spans, never as Delete or Insert; and
\* the script of "foo  bar" against "foo bar" has no Delete and no Insert.
C8_WhitespaceSuppressed ==
  pc = "diffed" =>
    LET orig_tokens == tokenize(call.original_text)
        corr_tokens == tokenize(call.corrected_text)
        ocs == get_opcodes(orig_tokens, corr_tokens)
    IN  /\ \A k \in 1..Len(ocs) :
             WhitespaceOnlyChange(ocs[k], orig_tokens, corr_tokens) =>
               LET out == OpcodeDiffs(impl, ocs[k], orig_tokens, corr_tokens)
               IN  \A n \in 1..Len(out) : out[n].op = DIFF_EQUAL
        /\ (call.original_text = FooBarOriginal
            /\ call.corrected_text = FooBarCorrected) =>
             ~HasOp(call.diffs, DIFF_DELETE) /\ ~HasOp(call.diffs, DIFF_INSERT)

\* C9: the script of a text against itself is one Equal span holding the
\* whole text, and the empty script for the empty text.
C9_SelfDiffIsOneEqual ==
  (pc = "diffed" /\ call.original_text = call.corrected_text) =>
    call.diffs = IF call.original_text = <<>> THEN <<>>
                 ELSE <<Span(DIFF_EQUAL, call.original_text)>>

\* C9's case: a text of words, blanks and punctuation diffed against itself
C9_Witness ==
  /\ pc = "diffed"
  /\ call.original_text = call.corrected_text
  /\ Len(tokenize(call.original_text)) >= 3
  /\ call.diffs # <<>>

RECURSIVE RunChars(_)
\* one entry per character of a run list: the character, the format of its
\* run, and the run's strike and highlight
RunChars(runs) ==
  IF runs = <<>> THEN <<>>
  ELSE LET r == Head(runs)
       IN  [i \in 1..Len(r.text) |->
              [c |-> r.text[i], f |-> RunFormat(r), strike |-> r.strike,
               highlight |-> r.highlight]]
           \o RunChars(Tail(runs))

\* a rendered run is an insertion iff it is highlighted, a deletion iff it is
\* struck through: apply_formatted_diffs sets neither on an Equal run
IsInsertRun(r) == Truthy(r.highlight)

IsDeleteRun(r) == Truthy(r.strike)

\* the characters of the rendered paragraph that stand at original offsets:
\* those of its Equal and Delete runs
KeptChars(runs) == RunChars(SelectSeq(runs, LAMBDA r : ~IsInsertRun(r)))

\* a bold run followed by a non-bold run, both with text, neither redlined
BoldThenPlain(runs) ==
  /\ Len(runs) = 2
  /\ runs[1].text # <<>> /\ runs[2].text # <<>>
  /\ Truthy(runs[1].bold) /\ ~Truthy(runs[2].bold)
  /\ ~paragraph_has_existing_redlines(runs)

\* corrected differs from the paragraph's text in one word, which lies in the
\* second run
WordChangedInSecondRun(runs, corrected) ==
  LET ot == tokenize(RunsText(runs))
      ct == tokenize(corrected)
  IN  /\ Len(ot) = Len(ct)
      /\ \E p \in 1..Len(ot) :
           /\ ot[p] # ct[p]
           /\ IsWord(ot[p][1]) /\ IsWord(ct[p][1])
           /\ \A q \in 1..Len(ot) : q # p => ot[q] = ct[q]
           /\ Len(Join(SubSeq(ot, 1, p - 1))) >= Len(runs[1].text)

\* C1's case: the bold dish name followed by its description in plain text,
\* a word of the description corrected
C1_Case ==
  /\ pc = "para_done" /\ call.ret
  /\ BoldThenPlain(doc0[1].runs)
  /\ WordChangedInSecondRun(doc0[1].runs, call.corrected_text)

\* C1: after process_paragraph has redlined a paragraph made of a bold run
\* and a non-bold run, for a correction that changes one word of the non-bold
\* part, every unchanged character has the bold value it had at its offset.
C1_BoldBoundaryKept ==
  C1_Case =>
    LET orig == RunChars(doc0[1].runs)
        kept == KeptChars(doc[1].runs)
    IN  /\ Len(kept) = Len(orig)
        /\ \A i \in 1..Len(kept) :
             ~Truthy(kept[i].strike) => kept[i].f.bold = orig[i].f.bold

\* C3: after process_paragraph has redlined a paragraph (the Equal and Delete
\* spans standing at the original offsets), the run of every unchanged
\* character has the font name, size, bold, italic, underline and color of
\* the original run at that offset.
C3_EqualKeepsFormat ==
  (/\ pc = "para_done" /\ call.ret
   /\ SpansText(call.diffs, {DIFF_EQUAL, DIFF_DELETE}) = call.original_text) =>
    LET orig == RunChars(doc0[1].runs)
        kept == KeptChars(doc[1].runs)
    IN  /\ Len(kept) = Len(orig)
        /\ \A i \in 1..Len(kept) :
             ~Truthy(kept[i].strike) => kept[i].f = orig[i].f

\* C4: an inserted run never has bold, italic, underline or color set,
\* whatever the edit script and the run layout.
C4_InsertInheritsNothing ==
  (pc = "para_done" /\ call.ret) =>
    \A k \in 1..Len(doc[1].runs) :
      IsInsertRun(doc[1].runs[k]) =>
        /\ doc[1].runs[k].bold = None
        /\ doc[1].runs[k].italic = None
        /\ doc[1].runs[k].underline = None
        /\ doc[1].runs[k].color = None

\* C5: process_paragraph leaves a paragraph with a struck-through or
\* highlighted run as it was, and returns False.
C5_RedlinedParagraphUntouched ==
  (pc = "para_done" /\ paragraph_has_existing_redlines(doc0[1].runs)) =>
    doc = doc0 /\ ~call.ret

\* C6: process_paragraph leaves a paragraph with a bold and a non-bold run
\* (both with text) as it was, and returns False.
C6_MixedBoldParagraphUntouched ==
  (pc = "para_done" /\ paragraph_has_mixed_bold(doc0[1].runs)) =>
    doc = doc0 /\ ~call.ret

ScenarioScript ==
  <<Span(DIFF_EQUAL, <<"T", "u", "n", "a", " ">>),
    Span(DIFF_DELETE, <<"T", "a", "r", "t", "a", "r">>),
    Span(DIFF_INSERT, <<"T", "a", "r", "t", "a", "r", "e">>),
    Span(DIFF_EQUAL, Slice(ScenarioOriginal, 11, 36)),
    Span(DIFF_INSERT, <<"*", " ">>),
    Span(DIFF_EQUAL, <<"D", ",", "G">>)>>

\* C10: for the paragraph "Tuna Tartar Tostada, avocado mousse D,G" corrected
\* to "Tuna Tartare Tostada, avocado mousse * D,G" the edit script is
\* ScenarioScript; in the rendered paragraph the struck-through red run
\* "Tartar" is immediately followed by the highlighted run "Tartare", and the
\* last run is "D,G" with the format of the original run that held it.
C10_Scenario ==
  (/\ pc = "para_done"
   /\ call.original_text = ScenarioOriginal
   /\ call.corrected_text = ScenarioCorrected) =>
    LET runs == doc[1].runs
        last == runs[Len(runs)]
    IN  /\ call.ret
        /\ call.diffs = ScenarioScript
        /\ \E k \in 1..(Len(runs) - 1) :
             /\ runs[k].text = <<"T", "a", "r", "t", "a", "r">>
             /\ runs[k].strike = "True" /\ runs[k].color = RED
             /\ runs[k].highlight = None
             /\ runs[k + 1].text = <<"T", "a", "r", "t", "a", "r", "e">>
             /\ runs[k + 1].highlight = YELLOW
             /\ runs[k + 1].strike = None
        /\ last.text = <<"D", ",", "G">>
        /\ last.strike = None /\ last.highlight = None
        /\ RunFormat(last) = RunChars(doc0[1].runs)[37].f

\* C10's case: the scenario paragraph, with its allergen codes in a run of
\* their own format, has been redlined
C10_Witness ==
  /\ pc = "para_done"
  /\ call.original_text = ScenarioOriginal
  /\ call.corrected_text = ScenarioCorrected
  /\ Len(doc0[1].runs) = 3
  /\ call.ret

\* indices of the paragraphs of the loaded document whose text holds the marker
MarkerHits == {k \in 1..Len(doc0) : Contains(RunsText(doc0[k].runs), boundary_marker)}

\* C7: when a paragraph holds the boundary marker, process_document never
\* changes the first such paragraph nor any paragraph before it, in the
\* document or in what is saved, and none of them is among the paragraphs to
\* process.
C7_TemplateUntouched ==
  MarkerHits # {} =>
    \A k \in 1..Min(MarkerHits) :
      /\ k <= Len(doc) /\ doc[k] = doc0[k]
      /\ \A j \in 1..Len(paragraphs_to_process) :
           paragraphs_to_process[j] # doc0[k].id
      /\ pc = "done" => (k <= Len(saved) /\ saved[k] = doc0[k])

\* C7's case: a document with text before its marker paragraph, that a
\* correction would have changed, has been processed and saved with a
\* paragraph after the marker redlined
C7_Witness ==
  /\ pc = "done"
  /\ MarkerHits # {}
  /\ Min(MarkerHits) >= 2
  /\ \E k \in 1..(Min(MarkerHits) - 1) :
       /\ ~IsBlank(RunsText(doc0[k].runs))
       /\ ~paragraph_has_existing_redlines(doc0[k].runs)
  /\ modified_count >= 1
  /\ saved # doc0

\* the runs of a rendered paragraph that are neither insertions nor deletions
IsEqualRun(r) == ~IsInsertRun(r) /\ ~IsDeleteRun(r)

\* the number of characters of the non-inserted runs before run k: the
\* original-text offset at which run k starts
OffsetOfRun(runs, k) ==
  Len(RunsText(SelectSeq(SubSeq(runs, 1, k - 1), LAMBDA r : ~IsInsertRun(r))))

\* C19: in a redlined paragraph the struck-through runs are, in order, the
\* non-empty Delete spans of the edit script, one run per span holding the
\* span's text, each with strike set and the color red whatever color the
\* text had; and the cursor has moved past the deleted text: an unchanged run
\* after it has the format found at its own offset in the original paragraph.
C19_DeleteRendering ==
  (pc = "para_done" /\ call.ret) =>
    LET runs == doc[1].runs
        dels == SelectSeq(runs, IsDeleteRun)
        spans == SelectSeq(call.diffs,
                           LAMBDA d : d.op = DIFF_DELETE /\ d.text # <<>>)
        orig == RunChars(doc0[1].runs)
    IN  /\ Len(dels) = Len(spans)
        /\ \A k \in 1..Len(dels) :
             /\ dels[k].text = spans[k].text
             /\ dels[k].strike = "True"
             /\ dels[k].color = RED
        /\ SpansText(call.diffs, {DIFF_EQUAL, DIFF_DELETE}) = call.original_text =>
             \A k \in 1..Len(runs) :
               IsEqualRun(runs[k]) =>
                 RunFormat(runs[k]) = orig[OffsetOfRun(runs, k) + 1].f

\* C19's case: text that was blue in the original paragraph has been deleted
\* and unchanged text follows the deletion
C19_Witness ==
  /\ pc = "para_done" /\ call.ret
  /\ \E k \in 1..(Len(doc[1].runs) - 1) :
       /\ IsDeleteRun(doc[1].runs[k])
       /\ RunChars(doc0[1].runs)[OffsetOfRun(doc[1].runs, k) + 1].f.color = "0000FF"
       /\ doc[1].runs[k].color = RED
       /\ IsEqualRun(doc[1].runs[k + 1])

\* C20: the correction function is never called for a paragraph whose text is
\* blank, nor for one that has a struck-through or highlighted run, nor for
\* one that mixes bold and non-bold runs.
C20_EligibilityBeforeCorrection ==
  call.asked =>
    /\ ~IsBlank(RunsText(doc0[1].runs))
    /\ ~paragraph_has_existing_redlines(doc0[1].runs)
    /\ ~paragraph_has_mixed_bold(doc0[1].runs)

\* whether the last request of the latest correction call failed
LastRequestFailed(c) ==
  /\ c.asked /\ c.requests # <<>>
  /\ c.requests[Len(c.requests)] \in {"rate_limit", "error"}

\* C12: when the service call made for a paragraph fails, correct_text raises
\* nothing and returns its input, process_paragraph returns False and leaves
\* the paragraph as it was, and process_document goes on with the next
\* paragraph.
C12_FailedCallLeavesParagraph ==
  [][(/\ pc = "loop" /\ idx < Len(paragraphs_to_process)
      /\ LastRequestFailed(call'))
     => /\ call'.corrected_text = call'.original_text
        /\ ~call'.ret /\ ~call'.raised
        /\ doc' = doc
        /\ modified_count' = modified_count
        /\ pc' = "loop" /\ idx' = idx + 1]_vars

\* C12's case: the service call for a paragraph has failed and a paragraph is
\* still to be processed
C12_Witness ==
  /\ pc = "loop"
  /\ LastRequestFailed(call)
  /\ ~IsBlank(call.original_text)
  /\ idx >= 1 /\ idx < Len(paragraphs_to_process)

\* C14: the output is written only when every paragraph to process has been
\* processed; when a paragraph's processing raises, no output is written.
C14_SavedOnlyAfterAllParagraphs ==
  /\ saved # <<>> => (pc = "done" /\ idx = Len(paragraphs_to_process))
  /\ pc = "raised" => saved = <<>>

\* C14's case: a paragraph's processing has raised after another paragraph
\* had been redlined
C14_Witness ==
  /\ pc = "raised"
  /\ call.raised
  /\ modified_count >= 1
  /\ saved = <<>>

\* C16: when no paragraph holds the marker, every paragraph of the document is
\* a paragraph to process, in document order, and the document is saved when
\* all of them have been processed.
C16_NoMarkerProcessesAll ==
  MarkerHits = {} =>
    /\ pc # "start" =>
         paragraphs_to_process = [k \in 1..Len(doc0) |-> doc0[k].id]
    /\ pc = "done" => (idx = Len(doc0) /\ saved # <<>>)
    /\ pc = "raised" => call.raised

\* C16's case: a document without the marker has been processed and saved,
\* two of its paragraphs redlined
C16_Witness ==
  /\ pc = "done"
  /\ MarkerHits = {}
  /\ Len(doc0) >= 2
  /\ modified_count >= 2

\* the allergen legend of the menu content of the loaded document
DocumentLegend ==
  LET ids == MenuParagraphs(doc0, boundary_marker)
  IN  detect_allergen_legend(
        [k \in 1..Len(ids) |-> RunsText(ParaById(doc0, ids[k]).runs)])

\* C18: when the menu content holds an allergen legend, every call of the
\* correction function for a paragraph of the document finds the corrector's
\* allergen codes set to the legend and its system prompt built from them.
C18_LegendBeforeCorrection ==
  (DocumentLegend # {} /\ call.asked) =>
    /\ corrector.allergen_codes = DocumentLegend
    /\ call.system_prompt = build_system_prompt(DocumentLegend)

\* C15: the paragraph rebuild is all-or-nothing: when apply_formatted_diffs
\* fails while it appends the new runs, the paragraph still holds the runs it
\* had before the call.
C15_RebuildAllOrNothing ==
  pc = "para_raised" => doc[1].runs = doc0[1].runs

\* the waits of the call that follow a rate-limit error
RetryWaits == SelectSeq(call.sleeps, LAMBDA w : w[1] = "RETRY_DELAY")

\* C17: a request of RateLimitedCorrector.correct_text that the service
\* rate-limits is followed by a wait of RETRY_DELAY times the attempt number
\* and, unless it was attempt MAX_RETRIES, by another request; no more than
\* MAX_RETRIES requests are made, and when all are rate-limited the original
\* text is returned.
C17_RetryOnRateLimit ==
  pc = "retried" =>
    LET n == Len(call.requests)
        limited == {k \in 1..n : call.requests[k] = "rate_limit"}
    IN  /\ n <= MAX_RETRIES
        /\ \A k \in limited : k = n => n = MAX_RETRIES
        /\ RetryWaits = [k \in 1..Cardinality(limited) |-> Sleep("RETRY_DELAY", k)]
        /\ (n = MAX_RETRIES /\ Cardinality(limited) = n) =>
             call.corrected_text = call.original_text

\* the names in the successful list and in the failed list
SuccessfulNames == {bulk.successful[k] : k \in 1..Len(bulk.successful)}

FailedNames == {bulk.failed[k][1] : k \in 1..Len(bulk.failed)}

\* every document handled is in exactly one of the two lists, and when the
\* run is over the two lists hold as many entries as there are documents
BulkAccounted ==
  /\ Len(bulk.successful) + Len(bulk.failed) = bulk.i
  /\ Cardinality(SuccessfulNames) = Len(bulk.successful)
  /\ Cardinality(FailedNames) = Len(bulk.failed)
  /\ SuccessfulNames \cap FailedNames = {}
  /\ SuccessfulNames \cup FailedNames = 1..bulk.i
  /\ pc = "bulk_done" =>
       Len(bulk.successful) + Len(bulk.failed) = Len(bulk.docx_files)

\* C13: in a bulk run an exception of one document is caught and recorded as
\* (file name, message) in failed, and the loop goes on with the next
\* document; every document handled is in exactly one of successful and
\* failed, and at the end len(successful) + len(failed) is the number of
\* documents found.
C13_BulkAccounting ==
  [][/\ BulkAccounted'
     /\ pc = "raised" =>
          /\ pc' = "bulk_loop"
          /\ bulk'.i = bulk.i + 1
          /\ Len(bulk'.failed) = Len(bulk.failed) + 1
          /\ bulk'.failed[Len(bulk'.failed)][1] = bulk.i + 1
          /\ bulk'.successful = bulk.successful]_vars

\* C13's case: the run is over, a document failed inside process_document
\* and a later document was processed and saved
C13_Witness ==
  /\ pc = "bulk_done"
  /\ \E f \in 1..Len(bulk.failed) :
       /\ bulk.failed[f][2] = "ValueError"
       /\ \E n \in SuccessfulNames : n > bulk.failed[f][1]

\* C11: correct_batch(texts) returns a list of exactly len(texts) items,
\* which is either the response split at the delimiter into len(texts)
\* strings in order, or the original texts.
C11_BatchSymmetry ==
  pc = "batched" =>
    /\ Len(batch.result) = Len(batch.texts)
    /\ \/ batch.result = batch.texts
       \/ /\ batch.outcome.kind = "response"
          /\ batch.result = SplitOn(Strip(batch.outcome.content), BatchDelimiter)

\* C11's case: two texts were sent, the response holds another number of
\* items, and the original texts came back
C11_Witness ==
  /\ pc = "batched"
  /\ Len(batch.texts) = 2
  /\ batch.texts[1] # batch.texts[2]
  /\ batch.outcome.kind = "response"
  /\ Len(SplitOn(Strip(batch.outcome.content), BatchDelimiter)) = 3
  /\ batch.result = batch.texts

\* the positions in document d of the paragraphs of ids whose text matches a
\* course-header pattern
HeaderPositions(d, ids) ==
  {k \in 1..Len(d) :
     /\ \E n \in 1..Len(ids) : ids[n] = d[k].id
     /\ is_course_header(RunsText(d[k].runs))}

\* the paragraphs of d that document d0 already had, in d's order
ExistingParagraphs(d, d0) == SelectSeq(d, LAMBDA p : p.id <= Len(d0))

\* a paragraph that holds only the number num: centered, one bold run with
\* yellow highlight
IsNumberParagraph(p, num) ==
  /\ p.alignment = "center"
  /\ Len(p.runs) = 1
  /\ p.runs[1].text = NumberText(num)
  /\ p.runs[1].bold = "True"
  /\ p.runs[1].highlight = YELLOW

\* process_document has just called add_course_numbers
CourseNumbersAdded ==
  /\ pc = "loop"
  /\ idx = 0
  /\ is_prix_fixe_menu(doc0, paragraphs_to_process)

\* C21: with k menu paragraphs matching a course-header pattern,
\* add_course_numbers inserts exactly k number-only paragraphs (centered,
\* bold, highlighted) and returns k; afterwards the i-th header is
\* immediately preceded by the paragraph whose text is i, and no paragraph
\* the document had is changed or reordered.
C21_CourseNumbersInserted ==
  CourseNumbersAdded =>
    LET headers == HeaderPositions(doc0, paragraphs_to_process)
        k == Cardinality(headers)
    IN  /\ add_course_numbers_returns(doc0, paragraphs_to_process) = k
        /\ Len(doc) = Len(doc0) + k
        /\ ExistingParagraphs(doc, doc0) = doc0
        /\ \A h \in headers :
             LET i == Cardinality({g \in headers : g <= h})
                 at == CHOOSE n \in 1..Len(doc) : doc[n].id = doc0[h].id
             IN  /\ at > 1
                 /\ IsNumberParagraph(doc[at - 1], i)
                 /\ doc[at - 1].id > Len(doc0)

\* C21's case: a prix fixe menu with two course headers has got its two
\* number paragraphs
C21_Witness ==
  /\ CourseNumbersAdded
  /\ Cardinality(HeaderPositions(doc0, paragraphs_to_process)) = 2
  /\ Len(doc) = Len(doc0) + 2

\* the entries of a paragraph text, as detect_allergen_legend splits it
EntriesOf(para_text) ==
  LET entries == SplitChar(Strip(para_text), "|")
  IN  [k \in 1..Len(entries) |-> Strip(entries[k])]

\* the entries that match the CODE-name pattern
MatchingEntries(entries) ==
  {k \in 1..Len(entries) : LegendMatch(entries[k]).matched}

\* the matching entries whose name holds a known allergen keyword
KeywordEntries(entries) ==
  {k \in MatchingEntries(entries) :
     \E w \in 1..Len(allergen_keywords) :
       Contains(Lower(LegendMatch(entries[k]).name), allergen_keywords[w])}

\* the positions of the last 15 paragraphs
LastFifteen(paragraphs) ==
  {k \in 1..Len(paragraphs) : k > Len(paragraphs) - 15}

\* C22: detect_allergen_legend accepts a paragraph as the legend only if it
\* is among the last 15 paragraphs, splits on "|" into at least 5 segments,
\* at least 5 segments match the CODE-name pattern, and at least half of the
\* matching segments reference a known allergen keyword; otherwise it
\* returns the empty mapping.
C22_LegendAcceptance ==
  pc = "legend_done" /\ call.legend # {} =>
    \E k \in LastFifteen(call.paragraphs) :
      LET entries == EntriesOf(call.paragraphs[k])
      IN  /\ Len(entries) >= 5
          /\ Cardinality(MatchingEntries(entries)) >= 5
          /\ 2 * Cardinality(KeywordEntries(entries))
               >= Cardinality(MatchingEntries(entries))

RECURSIVE LcsLength(_, _)
\* the length of a longest common subsequence of the token sequences a, b
LcsLength(a, b) ==
  IF a = <<>> \/ b = <<>> THEN 0
  ELSE IF Head(a) = Head(b) THEN 1 + LcsLength(Tail(a), Tail(b))
  ELSE Max({LcsLength(Tail(a), b), LcsLength(a, Tail(b))})

RECURSIVE IsSubsequence(_, _)
\* the tokens of s occur in t in s's order
IsSubsequence(s, t) ==
  IF s = <<>> THEN TRUE
  ELSE IF t = <<>> THEN FALSE
  ELSE IF Head(s) = Head(t) THEN IsSubsequence(Tail(s), Tail(t))
  ELSE IsSubsequence(s, Tail(t))

RECURSIVE EqualTokens(_)
\* the tokens of the Equal spans of an edit script, in order
EqualTokens(diffs) ==
  IF diffs = <<>> THEN <<>>
  ELSE (IF Head(diffs).op = DIFF_EQUAL THEN tokenize(Head(diffs).text) ELSE <<>>)
       \o EqualTokens(Tail(diffs))

\* C23: the edit script is minimal: the tokens _word_level_diffs keeps as
\* Equal form a longest common subsequence of the original and corrected
\* token sequences.
C23_EditScriptMinimal ==
  pc = "diffed" =>
    LET orig_tokens == tokenize(call.original_text)
        corr_tokens == tokenize(call.corrected_text)
        kept == EqualTokens(call.diffs)
    IN  /\ IsSubsequence(kept, orig_tokens)
        /\ IsSubsequence(kept, corr_tokens)
        /\ Len(kept) = LcsLength(orig_tokens, corr_tokens)

\* C24: while apply_formatted_diffs renders the edit script of
\* _word_level_diffs(original, corrected), at the start of every Equal and
\* every Delete span the original-text cursor is the offset at which the
\* span's text lies in the original text, and after the last span the
\* cursor is len(original).
C24_CursorAlignment ==
  (pc = "para_done" /\ call.ret) =>
    /\ \A k \in 1..Len(call.diffs) :
         call.diffs[k].op \in {DIFF_EQUAL, DIFF_DELETE} =>
           LET cursor == current_text_index_after(call.diffs, k - 1)
           IN  /\ cursor + Len(call.diffs[k].text) <= Len(call.original_text)
               /\ Slice(call.original_text, cursor,
                        cursor + Len(call.diffs[k].text)) = call.diffs[k].text
    /\ current_text_index_after(call.diffs, Len(call.diffs))
         = Len(call.original_text)

\* the joined texts of the runs without highlight: the struck-through and
\* the unmarked runs
WithoutInsertions(runs) ==
  RunsText(SelectSeq(runs, LAMBDA r : ~Truthy(r.highlight)))

\* C25 as stated: for a paragraph rebuilt from the edit script of
\* (original, corrected), paragraph_clean_text is exactly the corrected text
\* and the text of the struck-through and unmarked runs is exactly the
\* original text.
C25_AcceptYieldsCorrectionExact ==
  (pc = "para_done" /\ call.ret) =>
    /\ paragraph_clean_text(doc[1].runs) = call.corrected_text
    /\ WithoutInsertions(doc[1].runs) = call.original_text

\* C25: for a paragraph rebuilt from the edit script of (original,
\* corrected), paragraph_clean_text is the corrected text and the text of
\* the struck-through and unmarked runs is the original text, both once
\* whitespace is removed; both are exact in the module without whitespace
\* suppression, and with it whenever the edit script gives both texts
\* exactly (no whitespace-only change was re-tagged).
C25_AcceptYieldsCorrection ==
  (pc = "para_done" /\ call.ret) =>
    IF \/ impl = "live"
       \/ /\ SpansText(call.diffs, {DIFF_EQUAL, DIFF_DELETE}) = call.original_text
          /\ SpansText(call.diffs, {DIFF_EQUAL, DIFF_INSERT}) = call.corrected_text
      THEN /\ paragraph_clean_text(doc[1].runs) = call.corrected_text
           /\ WithoutInsertions(doc[1].runs) = call.original_text
    ELSE /\ WithoutWhitespace(paragraph_clean_text(doc[1].runs))
              = WithoutWhitespace(call.corrected_text)
         /\ WithoutWhitespace(WithoutInsertions(doc[1].runs))
              = WithoutWhitespace(call.original_text)

\* C25's case: a rebuilt paragraph holds a struck-through run, a highlighted
\* run and an unmarked run, and its clean text is the correction
C25_Witness ==
  /\ pc = "para_done" /\ call.ret
  /\ HasOp(call.diffs, DIFF_DELETE)
  /\ HasOp(call.diffs, DIFF_INSERT)
  /\ HasOp(call.diffs, DIFF_EQUAL)
  /\ \E k \in 1..Len(doc[1].runs) : Truthy(doc[1].runs[k].strike)
  /\ paragraph_clean_text(doc[1].runs) = call.corrected_text
  /\ paragraph_clean_text(doc[1].runs) # RunsText(doc[1].runs)

\* C26: process_paragraph returns True and rebuilds the runs only when the
\* edit script holds at least one Delete or Insert span; a paragraph whose
\* correction differs only in a way the diff re-tags as Equal is not
\* rebuilt and not counted as modified.
C26_RebuildOnlyOnChange ==
  (pc = "para_done" /\ (call.ret \/ doc[1].runs # doc0[1].runs)) =>
    (HasOp(call.diffs, DIFF_DELETE) \/ HasOp(call.diffs, DIFF_INSERT))

\* C27: running process_document a second time on its own output with the
\* same correction function modifies no paragraph and inserts no further
\* paragraph.
C27_SecondRunIdempotent ==
  (pc = "done" /\ again.pass = 2) =>
    /\ modified_count = 0
    /\ Loaded(saved) = again.first

\* C28: in a bulk run a well-formed document whose corrections return
\* without error is processed without exception by the process_document
\* that bulk_process imports, is saved, and its name ends in successful:
\* the call for the next file starts processing it and adds nothing to
\* failed, and a document that was saved is appended to successful.
C28_BulkProgress ==
  [][/\ (pc = "bulk_loop" /\ bulk.i < Len(bulk.docx_files)) =>
          /\ pc' = "start"
          /\ bulk'.failed = bulk.failed
     /\ pc = "done" =>
          /\ saved # <<>>
          /\ bulk'.successful = Append(bulk.successful, bulk.i + 1)
          /\ bulk'.failed = bulk.failed]_vars

\* the allergen legend the paragraphs of file n of the folder hold
FileLegend(n) ==
  detect_allergen_legend(
    [k \in 1..Len(bulk.docx_files[n]) |-> RunsText(bulk.docx_files[n][k])])

\* C29: in a bulk run that reuses one corrector the allergen vocabulary does
\* not leak between documents: the vocabulary in force for a correction call
\* of a document is that document's own legend if it holds one, and the
\* default codes otherwise, whatever the documents before it held.
C29_NoVocabularyLeak ==
  (bulk.docx_files # <<>> /\ call.asked) =>
    call.system_prompt =
      build_system_prompt(IF DocumentLegend # {} THEN DocumentLegend
                                                 ELSE DEFAULT_ALLERGEN_CODES)

\* C29's case: the first file of the folder holds a legend, the second holds
\* none, and a paragraph of the second is corrected under the default codes
C29_Witness ==
  /\ bulk.docx_files # <<>>
  /\ bulk.i = 1
  /\ FileLegend(1) # {}
  /\ DocumentLegend = {}
  /\ call.asked
  /\ call.system_prompt = build_system_prompt(DEFAULT_ALLERGEN_CODES)

\* the position in the loaded document of the paragraph with identity id,
\* or 0 for a paragraph the document did not have
PositionInLoaded(id) ==
  IF \E k \in 1..Len(doc0) : doc0[k].id = id
    THEN CHOOSE k \in 1..Len(doc0) : doc0[k].id = id
  ELSE 0

\* the paragraphs to process are paragraphs of the loaded document, each
\* once, in document order, all after the first marker paragraph
MenuContentInOrder ==
  /\ \A n \in 1..Len(paragraphs_to_process) :
       /\ PositionInLoaded(paragraphs_to_process[n]) > 0
       /\ MarkerHits # {} =>
            PositionInLoaded(paragraphs_to_process[n]) > Min(MarkerHits)
  /\ \A m, n \in 1..Len(paragraphs_to_process) :
       m < n => PositionInLoaded(paragraphs_to_process[m])
                  < PositionInLoaded(paragraphs_to_process[n])

\* C30: the correction function is invoked at most once per menu-content
\* paragraph, in document order, each call finishing before the next
\* paragraph is looked at; it is never invoked on an inserted course-number
\* paragraph nor on a paragraph at or before the boundary marker.
C30_OneCallPerParagraphInOrder ==
  [][/\ MenuContentInOrder'
     /\ (pc = "loop" /\ pc' # "done" /\ call'.asked) =>
          /\ call'.para = paragraphs_to_process[idx + 1]
          /\ call'.original_text
               = RunsText(doc0[PositionInLoaded(call'.para)].runs)
          /\ paragraphs_to_process' = paragraphs_to_process
          /\ (pc' = "loop" /\ idx' = idx + 1) \/ (pc' = "raised" /\ idx' = idx)
     /\ (pc = "loop" /\ pc' = "done") => call' = call]_vars

\* C30's case: in a prix fixe menu with a marker and a course header the
\* correction function has been called for the second menu paragraph, and a
\* number paragraph had been inserted
C30_Witness ==
  /\ pc = "loop"
  /\ idx = 2
  /\ MarkerHits # {}
  /\ Len(doc) > Len(doc0)
  /\ call.asked
  /\ call.para = paragraphs_to_process[2]

====
